---- MODULE Spec2Model ----
(***************************************************************************)
(* Verification model of the healthcare booking backend:                   *)
(*   - the doctor catalogue and its slot reservation                       *)
(*     (agents/doctor_booking/database.py, agents/doctor_booking/agent.py) *)
(*   - the lab-test session/cart store and agent                           *)
(*     (agents/lab_test/session_manager.py, agents/lab_test/agent.py)      *)
(*   - the executor of classified intents (main.py)                        *)
(*                                                                         *)
(* The specifications share the variables:                                 *)
(*   Spec          the doctor catalogue, one call at a time                *)
(*   SpecThreads   two threads running book_slot statement by statement    *)
(*   SpecLab       the lab-test agent over two sessions                    *)
(*   SpecSession   the SessionManager methods called directly              *)
(*   SpecLabApi    the executor of lab-test intents                        *)
(*   SpecDoctorApi the executor of doctor intents                          *)
(*   SpecPackages  package recommendation                                  *)
(*   SpecSearch    doctor search over every seeded availability            *)
(*   SpecScore     the relevance score on its own                          *)
(*   SpecCatalogue every doctor-catalogue operation, all slots free at first*)
(*   SpecCart      adds and removes on carts of up to three items          *)
(*   SpecWeek      schedules and bookings over a four-day availability     *)
(***************************************************************************)
EXTENDS Integers, Sequences, FiniteSets, TLC

VARIABLES
    is_booked,      \* Slot.is_booked of every slot of every doctor
    appointments,   \* MockDatabase.appointments: appointment_id -> Appointment
    seed_booked,    \* history: is_booked as _seed_data left it
    last,           \* history: the most recent catalogue call and its result
    prev,           \* history: the call before `last`
    pc,             \* SpecThreads: each thread's position inside book_slot
    targ,           \* SpecThreads: each thread's arguments
    tappt,          \* SpecThreads: each thread's local appt_id
    tres,           \* SpecThreads: each thread's return value
    sessions,       \* SessionManager.sessions: session_id -> state dict
    lab_ret         \* history: the most recent lab agent call and its result

doc_vars == <<is_booked, appointments, seed_booked>>
seq_vars == <<last, prev>>
thr_vars == <<pc, targ, tappt, tres>>
lab_vars == <<sessions, lab_ret>>
vars == <<is_booked, appointments, seed_booked, last, prev,
          pc, targ, tappt, tres, sessions, lab_ret>>

None == "None"

-----------------------------------------------------------------------------
(* The doctor catalogue                                                    *)

\* Slots generated per day (the program generates 4; the model is bounded).
NumSlots == 2

\* Doctors seeded in the catalogue (the program seeds doc_001..doc_020).
DoctorIds == {"doc_001", "doc_002"}

\* doc.availability: the day offsets from today, in list order (the program
\* generates 7 days).
DaySeq == <<0>>
Days == {DaySeq[i] : i \in 1 .. Len(DaySeq)}

\* Date strings a caller may pass and the day offset date.fromisoformat
\* gives for each; -1 stands for the ValueError of a malformed string.
DateStrs == {"today", "today+1", "not-a-date"}

FromIsoFormat(date_str) ==
    CASE date_str = "today" -> 0
      [] date_str = "today+1" -> 1
      [] date_str = "today+2" -> 2
      [] date_str = "today+3" -> 3
      [] OTHER -> -1

\* f"slot_{i}_{idx}"
SlotId(i, idx) == <<"slot", i, idx>>

SlotIdx == 0 .. (NumSlots - 1)

\* Every (doctor, day, slot index) of the availability grid.
SlotKeys == DoctorIds \X Days \X SlotIdx

\* Arguments callers pass: known and unknown ids.
DoctorInputs == DoctorIds \cup {"doc_999"}
SlotInputs == {SlotId(i, idx) : i \in Days, idx \in 0 .. NumSlots}
PatientIds == {"web_user"}

\* The dates of doc.availability, as day offsets: the days the grid of
\* is_booked flags has slots for.
GridDays == {k[2] : k \in DOMAIN is_booked}

\* self.doctors.get(doctor_id)
get_doctor(doctor_id) == IF doctor_id \in DoctorIds THEN doctor_id ELSE None

\* next((d for d in doc.availability if d.date == target_date), None)
FindDay(target_date) == IF target_date \in GridDays THEN target_date ELSE -1

\* next((s for s in day_avail.slots if s.slot_id == slot_id), None)
FindSlot(day, slot_id) ==
    IF \E idx \in SlotIdx : SlotId(day, idx) = slot_id
    THEN CHOOSE idx \in SlotIdx : SlotId(day, idx) = slot_id
    ELSE -1

\* A mutant of BookCheck: the is_booked test is left out.
BookCheckNoBookedTest(doctor_id, date_str, slot_id, booked) ==
    IF get_doctor(doctor_id) = None THEN "Doctor not found"
    ELSE IF FromIsoFormat(date_str) = -1 THEN "ValueError"
    ELSE IF FindDay(FromIsoFormat(date_str)) = -1 THEN "Date not available"
    ELSE IF FindSlot(FindDay(FromIsoFormat(date_str)), slot_id) = -1
         THEN "Slot not found"
    ELSE "ok"

\* A mutant of BookCheck: the date is parsed before the doctor is looked up.
BookCheckDateFirst(doctor_id, date_str, slot_id, booked) ==
    IF FromIsoFormat(date_str) = -1 THEN "ValueError"
    ELSE IF FindDay(FromIsoFormat(date_str)) = -1 THEN "Date not available"
    ELSE IF get_doctor(doctor_id) = None THEN "Doctor not found"
    ELSE IF FindSlot(FindDay(FromIsoFormat(date_str)), slot_id) = -1
         THEN "Slot not found"
    ELSE IF booked[<<doctor_id, FindDay(FromIsoFormat(date_str)),
                     FindSlot(FindDay(FromIsoFormat(date_str)), slot_id)>>]
         THEN "Slot already booked"
    ELSE "ok"

\* The guards of book_slot in the order the code tests them, reading the
\* flags `booked`: the error message returned, "ValueError" when
\* date.fromisoformat raises, "ok" when the call goes on to book.
BookCheck(doctor_id, date_str, slot_id, booked) ==
    IF get_doctor(doctor_id) = None THEN "Doctor not found"
    ELSE IF FromIsoFormat(date_str) = -1 THEN "ValueError"
    ELSE IF FindDay(FromIsoFormat(date_str)) = -1 THEN "Date not available"
    ELSE IF FindSlot(FindDay(FromIsoFormat(date_str)), slot_id) = -1
         THEN "Slot not found"
    ELSE IF booked[<<doctor_id, FindDay(FromIsoFormat(date_str)),
                     FindSlot(FindDay(FromIsoFormat(date_str)), slot_id)>>]
         THEN "Slot already booked"
    ELSE "ok"

\* The grid cell a call that passed BookCheck refers to.
KeyOf(doctor_id, date_str, slot_id) ==
    <<doctor_id, FindDay(FromIsoFormat(date_str)),
      FindSlot(FindDay(FromIsoFormat(date_str)), slot_id)>>

\* A mutant of MarkBooked: the grid is rebuilt with only this slot consumed.
MarkBookedOnly(booked, key) == [k \in DOMAIN booked |-> k = key]

\* slot.is_booked = True
MarkBooked(booked, key) == [booked EXCEPT ![key] = TRUE]

\* f"appt_{len(self.appointments) + 1}"
NextApptId(appts) == Cardinality(DOMAIN appts) + 1

\* Appointment(appointment_id, doctor_id, patient_id, slot_id, date, type)
Appointment(appt_id, doctor_id, patient_id, slot_id, day) ==
    [appointment_id |-> appt_id, doctor_id |-> doctor_id,
     patient_id |-> patient_id, slot_id |-> slot_id, date |-> day]

\* self.appointments[appt_id] = appt
StoreAppt(appts, appt_id, appt) ==
    [i \in (DOMAIN appts) \cup {appt_id} |->
        IF i = appt_id THEN appt ELSE appts[i]]

\* The dict book_slot returns.
BookResult(status, message, appt_id) ==
    [status |-> status, message |-> message, appointment_id |-> appt_id]

ErrorResult(out) ==
    IF out = "ValueError" THEN BookResult("raised", out, 0)
    ELSE BookResult("error", out, 0)

CallRecord(op, doctor_id, date_str, slot_id, patient_id, result) ==
    [op |-> op, doctor_id |-> doctor_id, date_str |-> date_str,
     slot_id |-> slot_id, patient_id |-> patient_id, result |-> result]

NoCall == CallRecord("none", None, None, None, None, BookResult("none", "", 0))

\* What `prev` keeps of a call: the arguments of a successful booking.
Summary(call) ==
    IF call.op = "book_slot" /\ call.result.status = "success"
    THEN [status |-> "success", doctor_id |-> call.doctor_id,
          date_str |-> call.date_str, slot_id |-> call.slot_id]
    ELSE [status |-> "other", doctor_id |-> None, date_str |-> None,
          slot_id |-> None]

\* A mutant of book_slot: the appointment is stored before the test of
\* slot.is_booked, so a refused booking of a taken slot leaves a record.
book_slotStoresFirst(doctor_id, date_str, slot_id, patient_id) ==
    LET out == BookCheck(doctor_id, date_str, slot_id, is_booked)
        key == KeyOf(doctor_id, date_str, slot_id)
        appt_id == NextApptId(appointments)
    IN  /\ prev' = Summary(last)
        /\ IF out \notin {"ok", "Slot already booked"}
           THEN /\ UNCHANGED <<is_booked, appointments>>
                /\ last' = CallRecord("book_slot", doctor_id, date_str,
                                      slot_id, patient_id, ErrorResult(out))
           ELSE /\ is_booked' = MarkBooked(is_booked, key)
                /\ appointments' =
                       StoreAppt(appointments, appt_id,
                                 Appointment(appt_id, doctor_id, patient_id,
                                             slot_id, key[2]))
                /\ last' = CallRecord("book_slot", doctor_id, date_str,
                                      slot_id, patient_id,
                                      IF out = "ok"
                                      THEN BookResult("success", "Booked", appt_id)
                                      ELSE ErrorResult(out))
        /\ UNCHANGED <<seed_booked, thr_vars, lab_vars>>

\* MockDatabase.book_slot, run without interruption.
book_slot(doctor_id, date_str, slot_id, patient_id) ==
    LET out == BookCheck(doctor_id, date_str, slot_id, is_booked)
        key == KeyOf(doctor_id, date_str, slot_id)
        appt_id == NextApptId(appointments)
    IN  /\ prev' = Summary(last)
        /\ IF out # "ok"
           THEN /\ UNCHANGED <<is_booked, appointments>>
                /\ last' = CallRecord("book_slot", doctor_id, date_str,
                                      slot_id, patient_id, ErrorResult(out))
           ELSE /\ is_booked' = MarkBooked(is_booked, key)
                /\ appointments' =
                       StoreAppt(appointments, appt_id,
                                 Appointment(appt_id, doctor_id, patient_id,
                                             slot_id, key[2]))
                /\ last' = CallRecord("book_slot", doctor_id, date_str,
                                      slot_id, patient_id,
                                      BookResult("success", "Booked", appt_id))
        /\ UNCHANGED <<seed_booked, thr_vars, lab_vars>>

BookSlot ==
    \E doctor_id \in DoctorInputs, date_str \in DateStrs,
       slot_id \in SlotInputs, patient_id \in PatientIds :
        book_slot(doctor_id, date_str, slot_id, patient_id)

\* for day in doc.availability[:3]
ScheduleDays == 3

SlotSeq == [i \in 1 .. NumSlots |-> i - 1]

Min(a, b) == IF a < b THEN a ELSE b

\* [s for s in day.slots if not s.is_booked], as slot ids
FreeSlots(doctor_id, day, booked) ==
    LET free == SelectSeq(SlotSeq, LAMBDA idx : ~booked[<<doctor_id, day, idx>>])
    IN  [i \in 1 .. Len(free) |-> SlotId(day, free[i])]

\* doc.availability as day offsets in list order (for i in range(7): today + i),
\* read off the grid of flags.
AvailabilityOf(booked) ==
    [i \in 1 .. Cardinality({k[2] : k \in DOMAIN booked}) |-> i - 1]

\* A mutant of ScheduleOf: every day of doc.availability is listed.
ScheduleOfAllDays(doctor_id, booked) ==
    LET shown == SelectSeq(AvailabilityOf(booked),
                     LAMBDA day : Len(FreeSlots(doctor_id, day, booked)) > 0)
    IN  [i \in 1 .. Len(shown) |->
            [date |-> shown[i],
             slots |-> FreeSlots(doctor_id, shown[i], booked)]]

\* The schedule list get_doctor_schedule builds.
ScheduleOf(doctor_id, booked) ==
    LET avail == AvailabilityOf(booked)
        first == SubSeq(avail, 1, Min(ScheduleDays, Len(avail)))
        shown == SelectSeq(first,
                     LAMBDA day : Len(FreeSlots(doctor_id, day, booked)) > 0)
    IN  [i \in 1 .. Len(shown) |->
            [date |-> shown[i],
             slots |-> FreeSlots(doctor_id, shown[i], booked)]]

\* DoctorBookingAgent.get_doctor_schedule
get_doctor_schedule(doctor_id) ==
    /\ prev' = Summary(last)
    /\ last' = CallRecord("get_doctor_schedule", doctor_id, None, None, None,
                 IF get_doctor(doctor_id) = None
                 THEN [status |-> "error", message |-> "Doctor not found",
                       schedule |-> <<>>]
                 ELSE [status |-> "ok", message |-> "",
                       schedule |-> ScheduleOf(doctor_id, is_booked)])
    /\ UNCHANGED <<doc_vars, thr_vars, lab_vars>>

GetDoctorSchedule == \E doctor_id \in DoctorInputs : get_doctor_schedule(doctor_id)

\* MockDatabase.search_doctors, step 4: whether a doctor has a free slot on
\* the first day of its availability.
has_slots_today(doctor_id, booked) ==
    \E idx \in SlotIdx : ~booked[<<doctor_id, DaySeq[1], idx>>]

\* MockDatabase.search_doctors as far as the catalogue is concerned: it reads
\* every doctor's slots and writes nothing.  The record keeps the
\* available_today flag of each result.
search_doctors ==
    /\ prev' = Summary(last)
    /\ last' = CallRecord("search_doctors", None, None, None, None,
                 [status |-> "ok", message |-> "",
                  available_today |->
                      [d \in DoctorIds |-> has_slots_today(d, is_booked)]])
    /\ UNCHANGED <<doc_vars, thr_vars, lab_vars>>

SearchDoctors == search_doctors

-----------------------------------------------------------------------------
(* book_slot statement by statement, run by two threads                    *)

Threads == {"t1", "t2"}

NoArgs == [doctor_id |-> None, date_str |-> None, slot_id |-> None,
           patient_id |-> None]

ThreadKey(t) == KeyOf(targ[t].doctor_id, targ[t].date_str, targ[t].slot_id)

\* Lines 142-159: the lookups and the test of slot.is_booked.
T_Check(t) ==
    /\ pc[t] = "idle"
    /\ \E doctor_id \in DoctorInputs, date_str \in DateStrs,
          slot_id \in SlotInputs, patient_id \in PatientIds :
          LET out == BookCheck(doctor_id, date_str, slot_id, is_booked)
          IN  /\ targ' = [targ EXCEPT ![t] =
                            [doctor_id |-> doctor_id, date_str |-> date_str,
                             slot_id |-> slot_id, patient_id |-> patient_id]]
              /\ IF out = "ok"
                 THEN /\ pc' = [pc EXCEPT ![t] = "mark"]
                      /\ UNCHANGED tres
                 ELSE /\ pc' = [pc EXCEPT ![t] = "done"]
                      /\ tres' = [tres EXCEPT ![t] = ErrorResult(out)]
    /\ UNCHANGED <<doc_vars, tappt, seq_vars, lab_vars>>

\* Line 162: slot.is_booked = True
T_Mark(t) ==
    /\ pc[t] = "mark"
    /\ is_booked' = MarkBooked(is_booked, ThreadKey(t))
    /\ pc' = [pc EXCEPT ![t] = "alloc"]
    /\ UNCHANGED <<appointments, seed_booked, targ, tappt, tres, seq_vars, lab_vars>>

\* Line 164: appt_id = f"appt_{len(self.appointments) + 1}"
T_Alloc(t) ==
    /\ pc[t] = "alloc"
    /\ tappt' = [tappt EXCEPT ![t] = NextApptId(appointments)]
    /\ pc' = [pc EXCEPT ![t] = "store"]
    /\ UNCHANGED <<doc_vars, targ, tres, seq_vars, lab_vars>>

\* Lines 165-179: self.appointments[appt_id] = appt; return
T_Store(t) ==
    /\ pc[t] = "store"
    /\ appointments' =
           StoreAppt(appointments, tappt[t],
                     Appointment(tappt[t], targ[t].doctor_id, targ[t].patient_id,
                                 targ[t].slot_id, ThreadKey(t)[2]))
    /\ tres' = [tres EXCEPT ![t] = BookResult("success", "Booked", tappt[t])]
    /\ pc' = [pc EXCEPT ![t] = "done"]
    /\ UNCHANGED <<is_booked, seed_booked, targ, tappt, seq_vars, lab_vars>>

-----------------------------------------------------------------------------
(* The lab-test catalogue (LabTestDatabase)                                *)

\* Strings that are searched are sequences of characters.
Txt_CompleteBloodCount ==
    << "C", "o", "m", "p", "l", "e", "t", "e", " ", "B", "l", "o", "o",
       "d", " ", "C", "o", "u", "n", "t" >>

Txt_ThyroidFunctionTest ==
    << "T", "h", "y", "r", "o", "i", "d", " ", "F", "u", "n", "c", "t",
       "i", "o", "n", " ", "T", "e", "s", "t", " ", "(", "T", "F", "T",
       ")" >>

Txt_Electrocardiogram ==
    << "E", "l", "e", "c", "t", "r", "o", "c", "a", "r", "d", "i", "o",
       "g", "r", "a", "m" >>

Txt_BloodTests ==
    << "B", "l", "o", "o", "d", " ", "T", "e", "s", "t", "s" >>

Txt_Radiology ==
    << "R", "a", "d", "i", "o", "l", "o", "g", "y" >>

Q_blood_count ==
    << "b", "l", "o", "o", "d", " ", "c", "o", "u", "n", "t" >>

Q_CBC ==
    << "C", "B", "C" >>

Q_tft ==
    << "t", "f", "t" >>

Q_Thyroid_TFT ==
    << "T", "h", "y", "r", "o", "i", "d", " ", "(", "T", "F", "T", ")" >>

Q_paren_xyz ==
    << "(", "x", "y", "z", ")" >>

Q_zzz ==
    << "z", "z", "z" >>

Q_Blood_Tests ==
    << "B", "l", "o", "o", "d", " ", "T", "e", "s", "t", "s" >>

\* str.lower() on one character (the upper-case letters the fixtures use).
LowerChar(c) ==
    CASE c = "A" -> "a"
      [] c = "B" -> "b"
      [] c = "C" -> "c"
      [] c = "D" -> "d"
      [] c = "P" -> "p"
      [] c = "S" -> "s"
      [] c = "E" -> "e"
      [] c = "F" -> "f"
      [] c = "M" -> "m"
      [] c = "R" -> "r"
      [] c = "T" -> "t"
      [] OTHER -> c

\* str.lower()
Lower(t) == [i \in 1 .. Len(t) |-> LowerChar(t[i])]

\* a in b, for strings
IsSubstr(a, b) ==
    \E i \in 0 .. (Len(b) - Len(a)) : SubSeq(b, i + 1, i + Len(a)) = a

\* The position of the first ch in t, 0 when there is none.
IndexOf(t, ch) ==
    IF \E i \in 1 .. Len(t) : t[i] = ch
    THEN CHOOSE i \in 1 .. Len(t) :
             t[i] = ch /\ \A j \in 1 .. (i - 1) : t[j] # ch
    ELSE 0

\* t.split(ch)[0]
SplitFirst(t, ch) ==
    IF IndexOf(t, ch) = 0 THEN t ELSE SubSeq(t, 1, IndexOf(t, ch) - 1)

\* t.split(ch)[1], for a t that holds ch
SplitSecond(t, ch) == SplitFirst(SubSeq(t, IndexOf(t, ch) + 1, Len(t)), ch)

\* str.strip()
RECURSIVE Strip(_)
Strip(t) ==
    IF Len(t) = 0 THEN t
    ELSE IF t[1] = " " THEN Strip(Tail(t))
    ELSE IF t[Len(t)] = " " THEN Strip(SubSeq(t, 1, Len(t) - 1))
    ELSE t

\* LabOffering rows of the seeded tests: blood tests are offered by several
\* labs at different prices; radiology tests are seeded with no offering
\* (labs_offering keeps its default []).
Offering(lab_id, lab_name, price, home) ==
    [lab_id |-> lab_id, lab_name |-> lab_name, price |-> price,
     home_collection_available |-> home]

\* The fields of LabTest (models.py); `name` is kept both as the display
\* string and as characters, rating is in hundredths of a star.
LabTestRow(id, name, name_text, category, rating, booking_count, labs) ==
    [id |-> id, name |-> name, name_text |-> name_text, category |-> category,
     rating |-> rating, booking_count |-> booking_count, labs_offering |-> labs]

\* self.tests, in insertion order.
Tests ==
    << LabTestRow("test_blood_001", "Complete Blood Count",
           Txt_CompleteBloodCount, Txt_BloodTests, 465, 300,
           << Offering("lab_001", "Ruby Hall Clinic", 500, TRUE),
              Offering("lab_002", "CityCare Labs", 450, FALSE) >>),
       LabTestRow("test_blood_003", "Thyroid Function Test (TFT)",
           Txt_ThyroidFunctionTest, Txt_BloodTests, 480, 800,
           << Offering("lab_001", "Ruby Hall Clinic", 700, TRUE) >>),
       LabTestRow("test_radio_006", "Electrocardiogram",
           Txt_Electrocardiogram, Txt_Radiology, 450, 300, << >>) >>

QueryInputs == {Q_blood_count, Q_CBC, Q_tft, Q_Thyroid_TFT, Q_paren_xyz,
                Q_zzz, Q_Blood_Tests, << >>}

\* The filters dict of a search: a function from the keys present.
NoFilters == << >>
FilterInputs ==
    {NoFilters, [max_price |-> 600], [home_collection |-> TRUE],
     [home_collection |-> FALSE], [min_rating |-> 470]}

TestIdInputs == {"test_blood_001", "test_blood_003", "test_radio_006",
                 "test_unknown", None}
LabIdInputs == {"lab_001", "lab_002", "lab_999", None}

\* next((x for x in seq if test(x)), None), given hits, the elements of seq
\* that pass the test, in order: the empty sequence stands for None, a
\* one-element sequence for the element found.
FirstWhere(hits) ==
    IF Len(hits) = 0 THEN << >> ELSE << hits[1] >>

\* LabTestDatabase.get_test
get_test(test_id) ==
    FirstWhere(SelectSeq(Tests, LAMBDA t : t.id = test_id))

\* Whether search_tests keeps a test for the query (lines 286-311).
QueryMatches(query, test) ==
    LET query_lower == Lower(query)
        base_query ==
            IF IndexOf(query_lower, "(") # 0
            THEN Strip(SplitFirst(query_lower, "("))
            ELSE query_lower
        has_abbrev ==
            IndexOf(query_lower, "(") # 0 /\ IndexOf(query_lower, ")") # 0
        abbrev ==
            IF has_abbrev
            THEN Strip(SplitFirst(SplitSecond(query_lower, "("), ")"))
            ELSE << >>
        test_name_lower == Lower(test.name_text)
        test_category_lower == Lower(test.category)
    IN  \/ IsSubstr(base_query, test_name_lower)
        \/ IsSubstr(query_lower, test_name_lower)
        \/ IsSubstr(query_lower, test_category_lower)
        \/ (has_abbrev /\ Len(abbrev) > 0 /\ IsSubstr(abbrev, test_name_lower))

\* A mutant of SortDescUpTo: of two rows with the same key the later comes
\* first.
RECURSIVE SortDescUpToUnstable(_, _)
SortDescUpToUnstable(rows, n) ==
    IF n = 0 THEN << >>
    ELSE LET sorted == SortDescUpToUnstable(rows, n - 1)
             k == Cardinality({i \in 1 .. Len(sorted) :
                                  sorted[i].sort_key > rows[n].sort_key})
         IN  SubSeq(sorted, 1, k) \o << rows[n] >>
                 \o SubSeq(sorted, k + 1, Len(sorted))

\* list.sort(key=..., reverse=True) on rows with a sort_key: descending,
\* rows with equal keys keep their order.
RECURSIVE SortDescUpTo(_, _)
SortDescUpTo(rows, n) ==
    IF n = 0 THEN << >>
    ELSE LET sorted == SortDescUpTo(rows, n - 1)
             k == Cardinality({i \in 1 .. Len(sorted) :
                                  sorted[i].sort_key >= rows[n].sort_key})
         IN  SubSeq(sorted, 1, k) \o << rows[n] >>
                 \o SubSeq(sorted, k + 1, Len(sorted))

SortDesc(rows) == SortDescUpTo(rows, Len(rows))

\* LabTestDatabase.search_tests: the tests returned, or the AttributeError
\* raised when a filter reads an attribute LabTest does not have.
db_search_tests(query, filters) ==
    LET matched == SelectSeq(Tests, LAMBDA t : QueryMatches(query, t))
        price_raises ==
            /\ "max_price" \in DOMAIN filters
            /\ \E i \in 1 .. Len(matched) : "price" \notin DOMAIN matched[i]
        home_raises ==
            /\ "home_collection" \in DOMAIN filters
            /\ filters["home_collection"]
            /\ \E i \in 1 .. Len(matched) :
                   "home_collection_available" \notin DOMAIN matched[i]
        rated ==
            IF "min_rating" \in DOMAIN filters
            THEN SelectSeq(matched, LAMBDA t : t.rating >= filters["min_rating"])
            ELSE matched
        keyed == [i \in 1 .. Len(rated) |->
                     [sort_key |-> rated[i].booking_count, test |-> rated[i]]]
        sorted == SortDesc(keyed)
    IN  IF price_raises \/ home_raises
        THEN [raised |-> TRUE, results |-> << >>]
        ELSE [raised |-> FALSE,
              results |-> [i \in 1 .. Len(sorted) |-> sorted[i].test]]

\* The fields models.LabSlot declares. A pydantic model ignores keyword
\* arguments that are not declared fields, so the `time=` keyword that
\* get_available_slots passes is not stored on the object.
LabSlotFields ==
    {"slot_id", "date", "time_range", "collection_type", "available",
     "lab_name", "lab_address"}

\* LabSlot(**kwargs)
LabSlot(kwargs) == [f \in (DOMAIN kwargs) \cap LabSlotFields |-> kwargs[f]]

\* The slots get_available_slots can generate, in generation order (one home
\* slot and one lab slot of one open day stand for the 7-day grid).
SlotUniverse ==
    << LabSlot([slot_id |-> "home_d0_06:00", date |-> "d0", time |-> "7:00 AM",
                time_range |-> "7:00 AM", collection_type |-> "home_collection",
                available |-> TRUE, lab_name |-> None, lab_address |-> None]),
       LabSlot([slot_id |-> "lab_Ruby_Hall_Clinic_d0_08:00", date |-> "d0",
                time |-> "9:00 AM", time_range |-> "9:00 AM",
                collection_type |-> "lab_visit", available |-> TRUE,
                lab_name |-> "Ruby Hall Clinic",
                lab_address |-> "Pune Central"]) >>

\* The outcomes of the per-slot random.random() draws: the positions of
\* SlotUniverse that are generated.
Samples == SUBSET (1 .. Len(SlotUniverse))

\* LabTestDatabase.get_available_slots, for one outcome of the draws.
db_get_available_slots(sample) ==
    LET picked == SelectSeq([i \in 1 .. Len(SlotUniverse) |-> i],
                            LAMBDA i : i \in sample)
    IN  [i \in 1 .. Len(picked) |-> SlotUniverse[picked[i]]]

LabSlotIdInputs ==
    {"home_d0_06:00", "lab_Ruby_Hall_Clinic_d0_08:00", "slot_bogus", None}
CollectionTypes == {"home", "lab_visit"}

\* f"BK{datetime.now().strftime('%Y%m%d%H%M%S')}": the second the call runs in.
BookingRefs == {"BK20261101090000", "BK20261101090001"}

-----------------------------------------------------------------------------
(* SessionManager                                                          *)

SessionIds == {"s1", "s2"}

\* selected_slot = None, in the shape book_tests gives the field.
NoSlot == [slot_id |-> None, date |-> None, time |-> None]

\* _create_empty_state (the filters dict and the two timestamps, which no
\* operation reads, are left out)
EmptyState ==
    [journey_step |-> "search", cart |-> << >>, collection_method |-> None,
     selected_slot |-> NoSlot, booking_reference |-> None]

\* A mutant of SM_get_state: a new empty state is made on every call.
SM_get_stateAlwaysNew(ss, sid) ==
    [x \in (DOMAIN ss) \cup {sid} |-> IF x = sid THEN EmptyState ELSE ss[x]]

\* A mutant of SM_get_state: looking a session up puts it back in stage
\* search.
SM_get_stateResetsStage(ss, sid) ==
    [x \in (DOMAIN ss) \cup {sid} |->
        IF x # sid THEN ss[x]
        ELSE IF sid \in DOMAIN ss
        THEN [ss[sid] EXCEPT !.journey_step = "search"]
        ELSE EmptyState]

\* get_state: the sessions dict after the call (the state is ss[sid]).
SM_get_state(ss, sid) ==
    IF sid \in DOMAIN ss THEN ss
    ELSE [x \in (DOMAIN ss) \cup {sid} |-> IF x = sid THEN EmptyState ELSE ss[x]]

\* update_state: current_state.update(updates)
SM_update_state(ss, sid, updates) ==
    LET s1 == SM_get_state(ss, sid)
    IN  [s1 EXCEPT ![sid] =
            [f \in DOMAIN s1[sid] |->
                IF f \in DOMAIN updates THEN updates[f] ELSE s1[sid][f]]]

InCart(cart, test_id) == \E i \in 1 .. Len(cart) : cart[i].test_id = test_id

\* A mutant of SM_add_to_cart: the duplicate test is left out.
SM_add_to_cartNoCheck(ss, sid, item) ==
    LET s1 == SM_get_state(ss, sid)
    IN  [s1 EXCEPT ![sid].cart = Append(@, item),
                   ![sid].journey_step = "cart"]

\* A mutant of SM_add_to_cart: a duplicate replaces the entry (last wins).
SM_add_to_cartLastWins(ss, sid, item) ==
    LET s1 == SM_get_state(ss, sid)
    IN  IF InCart(s1[sid].cart, item.test_id)
        THEN [s1 EXCEPT ![sid].cart =
                 [i \in 1 .. Len(@) |->
                     IF @[i].test_id = item.test_id THEN item ELSE @[i]]]
        ELSE [s1 EXCEPT ![sid].cart = Append(@, item),
                        ![sid].journey_step = "cart"]

\* A mutant of SM_add_to_cart: sessions whose carts are empty share one list,
\* so the item shows in each of them.
SM_add_to_cartSharedCart(ss, sid, item) ==
    LET s1 == SM_get_state(ss, sid)
    IN  IF InCart(s1[sid].cart, item.test_id)
        THEN s1
        ELSE [x \in DOMAIN s1 |->
                 IF x = sid
                 THEN [s1[x] EXCEPT !.cart = Append(@, item),
                                    !.journey_step = "cart"]
                 ELSE IF s1[x].cart = << >> /\ s1[sid].cart = << >>
                 THEN [s1[x] EXCEPT !.cart = Append(@, item)]
                 ELSE s1[x]]

\* A mutant of SM_add_to_cart: the new item goes to the front of the cart.
SM_add_to_cartPrepends(ss, sid, item) ==
    LET s1 == SM_get_state(ss, sid)
    IN  IF InCart(s1[sid].cart, item.test_id)
        THEN s1
        ELSE [s1 EXCEPT ![sid].cart = << item >> \o @,
                        ![sid].journey_step = "cart"]

\* add_to_cart
SM_add_to_cart(ss, sid, item) ==
    LET s1 == SM_get_state(ss, sid)
    IN  IF InCart(s1[sid].cart, item.test_id)
        THEN s1
        ELSE [s1 EXCEPT ![sid].cart = Append(@, item),
                        ![sid].journey_step = "cart"]

\* A mutant of SM_remove_from_cart: the stage goes back to discovery whether
\* or not the cart is empty.
SM_remove_from_cartAlwaysDiscovery(ss, sid, test_id) ==
    LET s1 == SM_get_state(ss, sid)
        kept == SelectSeq(s1[sid].cart, LAMBDA item : item.test_id # test_id)
    IN  [s1 EXCEPT ![sid].cart = kept, ![sid].journey_step = "discovery"]

\* A mutant of SM_remove_from_cart: the stage is left as it was when the cart
\* becomes empty.
SM_remove_from_cartKeepsStage(ss, sid, test_id) ==
    LET s1 == SM_get_state(ss, sid)
        kept == SelectSeq(s1[sid].cart, LAMBDA item : item.test_id # test_id)
    IN  [s1 EXCEPT ![sid].cart = kept]

\* remove_from_cart
SM_remove_from_cart(ss, sid, test_id) ==
    LET s1 == SM_get_state(ss, sid)
        kept == SelectSeq(s1[sid].cart, LAMBDA item : item.test_id # test_id)
    IN  [s1 EXCEPT ![sid].cart = kept,
                   ![sid].journey_step =
                       IF Len(kept) = 0 THEN "discovery" ELSE @]

RECURSIVE SumPricesUpTo(_, _)
SumPricesUpTo(cart, n) ==
    IF n = 0 THEN 0 ELSE cart[n].price + SumPricesUpTo(cart, n - 1)

\* A mutant of SM_get_cart_total: the last item is not counted.
SM_get_cart_totalSkipLast(ss, sid) ==
    LET cart == SM_get_state(ss, sid)[sid].cart
    IN  IF Len(cart) = 0 THEN 0 ELSE SumPricesUpTo(cart, Len(cart) - 1)

\* get_cart_total: sum(item['price'] for item in state['cart'])
SM_get_cart_total(ss, sid) ==
    LET cart == SM_get_state(ss, sid)[sid].cart
    IN  SumPricesUpTo(cart, Len(cart))

\* A mutant of SM_clear_cart: the booking details go with the cart.
SM_clear_cartDropsBooking(ss, sid) ==
    LET s1 == SM_get_state(ss, sid)
    IN  [s1 EXCEPT ![sid].cart = << >>, ![sid].journey_step = "discovery",
                   ![sid].booking_reference = None,
                   ![sid].selected_slot = NoSlot]

\* clear_cart
SM_clear_cart(ss, sid) ==
    LET s1 == SM_get_state(ss, sid)
    IN  [s1 EXCEPT ![sid].cart = << >>, ![sid].journey_step = "discovery"]

-----------------------------------------------------------------------------
(* LabTestAgent                                                            *)

\* The cart_item dict add_to_cart builds.
CartItem(test, lab) ==
    [test_id |-> test.id, test_name |-> test.name, lab_id |-> lab.lab_id,
     lab_name |-> lab.lab_name, price |-> lab.price,
     home_collection_available |-> lab.home_collection_available]

\* LabTestAgent.add_to_cart
add_to_cart(sid, test_id, lab_id) ==
    LET test == get_test(test_id)
        selected_lab ==
            IF test = << >> THEN << >>
            ELSE FirstWhere(SelectSeq(test[1].labs_offering,
                                      LAMBDA lab : lab.lab_id = lab_id))
        s1 == SM_add_to_cart(sessions, sid, CartItem(test[1], selected_lab[1]))
        cart_total == SM_get_cart_total(s1, sid)
        s2 == SM_get_state(SM_get_state(s1, sid), sid)
    IN  /\ IF test = << >>
           THEN /\ lab_ret' = [op |-> "add_to_cart", sid |-> sid,
                               test_id |-> test_id, lab_id |-> lab_id,
                               success |-> FALSE, message |-> "Test not found",
                               cart |-> << >>, cart_total |-> 0]
                /\ UNCHANGED sessions
           ELSE IF selected_lab = << >>
           THEN /\ lab_ret' = [op |-> "add_to_cart", sid |-> sid,
                               test_id |-> test_id, lab_id |-> lab_id,
                               success |-> FALSE,
                               message |-> "Lab does not offer this test",
                               cart |-> << >>, cart_total |-> 0]
                /\ UNCHANGED sessions
           ELSE /\ sessions' = s2
                /\ lab_ret' = [op |-> "add_to_cart", sid |-> sid,
                               test_id |-> test_id, lab_id |-> lab_id,
                               success |-> TRUE, message |-> "Added",
                               cart |-> s2[sid].cart, cart_total |-> cart_total]
        /\ UNCHANGED <<doc_vars, seq_vars, thr_vars>>

\* db_search_tests over the inputs of the model, evaluated once.
SearchTable ==
    [query \in QueryInputs, filters \in FilterInputs |->
        db_search_tests(query, filters)]

\* results[:10]
TopResults == 10

\* LabTestAgent.search_tests
search_tests(query, sid, filters) ==
    LET found == SearchTable[query, filters]
        shown == SubSeq(found.results, 1, Min(TopResults, Len(found.results)))
    IN  /\ IF found.raised
           THEN /\ UNCHANGED sessions
                /\ lab_ret' = [op |-> "search_tests", sid |-> sid,
                               query |-> query, filters |-> filters,
                               raised |-> TRUE, results |-> << >>]
           ELSE /\ sessions' = SM_update_state(sessions, sid,
                                    [journey_step |-> "discovery"])
                /\ lab_ret' = [op |-> "search_tests", sid |-> sid,
                               query |-> query, filters |-> filters,
                               raised |-> FALSE,
                               results |-> [i \in 1 .. Len(shown) |-> shown[i].id]]
        /\ UNCHANGED <<doc_vars, seq_vars, thr_vars>>

SearchTests ==
    \E sid \in SessionIds, query \in QueryInputs, filters \in FilterInputs :
        search_tests(query, sid, filters)

AddToCart ==
    \E sid \in SessionIds, test_id \in TestIdInputs, lab_id \in LabIdInputs :
        add_to_cart(sid, test_id, lab_id)

\* LabTestAgent.remove_from_cart
remove_from_cart(sid, test_id) ==
    LET s1 == SM_remove_from_cart(sessions, sid, test_id)
        cart_total == SM_get_cart_total(s1, sid)
    IN  /\ sessions' = s1
        /\ lab_ret' = [op |-> "remove_from_cart", sid |-> sid,
                       test_id |-> test_id, success |-> TRUE,
                       cart |-> s1[sid].cart, cart_total |-> cart_total]
        /\ UNCHANGED <<doc_vars, seq_vars, thr_vars>>

RemoveFromCart ==
    \E sid \in SessionIds, test_id \in TestIdInputs : remove_from_cart(sid, test_id)

\* LabTestAgent.view_cart
view_cart(sid) ==
    LET s1 == SM_get_state(sessions, sid)
        cart_total == SM_get_cart_total(s1, sid)
    IN  /\ sessions' = s1
        /\ lab_ret' = [op |-> "view_cart", sid |-> sid, cart |-> s1[sid].cart,
                       cart_total |-> cart_total,
                       cart_count |-> Len(s1[sid].cart)]
        /\ UNCHANGED <<doc_vars, seq_vars, thr_vars>>

ViewCart == \E sid \in SessionIds : view_cart(sid)

\* LabTestAgent.clear_cart
clear_cart(sid) ==
    /\ sessions' = SM_clear_cart(sessions, sid)
    /\ lab_ret' = [op |-> "clear_cart", sid |-> sid, success |-> TRUE,
                   cart |-> << >>, cart_total |-> 0]
    /\ UNCHANGED <<doc_vars, seq_vars, thr_vars>>

ClearCart == \E sid \in SessionIds : clear_cart(sid)

\* The ids of the slots one db.get_available_slots() call hands to the agent
\* (the "generated" field of a get_available_slots record keeps them, also
\* when formatting them raises).
SlotIdsOf(slots) == [i \in 1 .. Len(slots) |-> slots[i].slot_id]

\* A mutant of get_available_slots: the slots are generated and formatted
\* before the cart is looked at.
get_available_slotsNoCartCheck(sid, sample) ==
    LET s1 == SM_get_state(sessions, sid)
        slots == db_get_available_slots(sample)
    IN  /\ sessions' = s1
        /\ lab_ret' =
              IF \E i \in 1 .. Len(slots) : "time" \notin DOMAIN slots[i]
              THEN [op |-> "get_available_slots", sid |-> sid,
                    raised |-> TRUE, slots |-> << >>,
                    generated |-> SlotIdsOf(slots)]
              ELSE [op |-> "get_available_slots", sid |-> sid,
                    raised |-> FALSE, slots |-> SlotIdsOf(slots),
                    generated |-> SlotIdsOf(slots)]
        /\ UNCHANGED <<doc_vars, seq_vars, thr_vars>>

\* LabTestAgent.get_available_slots
get_available_slots(sid, sample) ==
    LET s1 == SM_get_state(sessions, sid)
        slots == db_get_available_slots(sample)
    IN  /\ sessions' = s1
        /\ lab_ret' =
              IF Len(s1[sid].cart) = 0
              THEN [op |-> "get_available_slots", sid |-> sid,
                    raised |-> FALSE, slots |-> << >>, generated |-> << >>]
              ELSE IF \E i \in 1 .. Len(slots) : "time" \notin DOMAIN slots[i]
              THEN [op |-> "get_available_slots", sid |-> sid,
                    raised |-> TRUE, slots |-> << >>,
                    generated |-> SlotIdsOf(slots)]
              ELSE [op |-> "get_available_slots", sid |-> sid,
                    raised |-> FALSE, slots |-> SlotIdsOf(slots),
                    generated |-> SlotIdsOf(slots)]
        /\ UNCHANGED <<doc_vars, seq_vars, thr_vars>>

GetAvailableSlots ==
    \E sid \in SessionIds, sample \in Samples : get_available_slots(sid, sample)

\* The home-collection fee book_tests adds (item.get('home_collection_fee', 50):
\* cart items carry no such key).
DefaultHomeFee == 50

RECURSIVE HomeFeeUpTo(_, _)
HomeFeeUpTo(cart, n) ==
    IF n = 0 THEN 0
    ELSE (IF cart[n].home_collection_available THEN DefaultHomeFee ELSE 0)
             + HomeFeeUpTo(cart, n - 1)

BookTestsReturn(sid, collection_type, slot_id, outcome, ref, tests, total) ==
    [op |-> "book_tests", sid |-> sid, collection_type |-> collection_type,
     slot_id |-> slot_id, outcome |-> outcome, success |-> outcome = "success",
     booking_reference |-> ref, tests |-> tests, total_amount |-> total]

\* LabTestAgent.book_tests, for one outcome of the slot draws.
book_tests(sid, collection_type, slot_id, sample) ==
    LET s1 == SM_get_state(sessions, sid)
        cart == s1[sid].cart
        slot == FirstWhere(SelectSeq(db_get_available_slots(sample),
                                     LAMBDA s : s.slot_id = slot_id))
        cart_total ==
            SM_get_cart_total(s1, sid)
                + (IF collection_type = "home"
                   THEN HomeFeeUpTo(cart, Len(cart)) ELSE 0)
    IN  /\ IF Len(cart) = 0
           THEN /\ sessions' = s1
                /\ lab_ret' = BookTestsReturn(sid, collection_type, slot_id,
                                  "Cart is empty", None, << >>, 0)
           ELSE IF slot = << >>
           THEN /\ sessions' = s1
                /\ lab_ret' = BookTestsReturn(sid, collection_type, slot_id,
                                  "Invalid slot", None, << >>, 0)
           ELSE IF "time" \notin DOMAIN slot[1]
           THEN \* line 251 reads slot.time: AttributeError, nothing is recorded
                /\ sessions' = s1
                /\ lab_ret' = BookTestsReturn(sid, collection_type, slot_id,
                                  "AttributeError", None, << >>, 0)
           ELSE \E booking_ref \in BookingRefs :
                  LET s2 == SM_update_state(s1, sid,
                                [journey_step |-> "post_booking",
                                 booking_reference |-> booking_ref,
                                 selected_slot |->
                                     [slot_id |-> slot_id,
                                      date |-> slot[1].date,
                                      time |-> slot[1].time]])
                      s3 == SM_clear_cart(s2, sid)
                  IN  /\ sessions' = s3
                      /\ lab_ret' =
                            BookTestsReturn(sid, collection_type, slot_id,
                                "success", booking_ref,
                                [i \in 1 .. Len(s3[sid].cart) |->
                                    s3[sid].cart[i].test_name],
                                cart_total)
        /\ UNCHANGED <<doc_vars, seq_vars, thr_vars>>

BookTests ==
    \E sid \in SessionIds, collection_type \in CollectionTypes,
       slot_id \in LabSlotIdInputs, sample \in Samples :
        book_tests(sid, collection_type, slot_id, sample)

-----------------------------------------------------------------------------
(* SessionManager driven directly by a caller                              *)

\* reset_state
SM_reset_state(ss, sid) ==
    [x \in (DOMAIN ss) \cup {sid} |-> IF x = sid THEN EmptyState ELSE ss[x]]

\* The cart items LabTestAgent.add_to_cart hands to the session manager: one
\* per (test, offering lab) of the catalogue.
CartItemInputs ==
    {CartItem(Tests[i], Tests[i].labs_offering[j]) :
        <<i, j>> \in {p \in (1 .. Len(Tests)) \X (1 .. 2) :
                         p[2] <= Len(Tests[p[1]].labs_offering)}}

\* The update dicts the agent passes to update_state: the one of
\* search_tests and the one of book_tests.
UpdateInputs ==
    {[journey_step |-> "discovery"]}
        \cup {[journey_step |-> "post_booking", booking_reference |-> ref,
               selected_slot |-> [slot_id |-> "home_d0_06:00", date |-> "d0",
                                  time |-> "7:00 AM"]] : ref \in BookingRefs}

\* What the record of a call keeps: the operation, the session, the test id
\* (None where the operation takes none), the state or total returned, and
\* the number of cart entries the call took out.
SessionRet(op, sid, test_id, state, total, removed) ==
    [op |-> op, sid |-> sid, test_id |-> test_id, state |-> state,
     total |-> total, removed |-> removed]

\* SessionManager.get_state
SessionGetState ==
    \E sid \in SessionIds :
        LET s1 == SM_get_state(sessions, sid)
        IN  /\ sessions' = s1
            /\ lab_ret' = SessionRet("get_state", sid, None, s1[sid], 0, 0)
            /\ UNCHANGED <<doc_vars, seq_vars, thr_vars>>

\* SessionManager.update_state
SessionUpdateState ==
    \E sid \in SessionIds, updates \in UpdateInputs :
        LET s1 == SM_update_state(sessions, sid, updates)
        IN  /\ sessions' = s1
            /\ lab_ret' = SessionRet("update_state", sid, None, s1[sid], 0, 0)
            /\ UNCHANGED <<doc_vars, seq_vars, thr_vars>>

\* SessionManager.reset_state
SessionResetState ==
    \E sid \in SessionIds :
        LET s1 == SM_reset_state(sessions, sid)
        IN  /\ sessions' = s1
            /\ lab_ret' = SessionRet("reset_state", sid, None, s1[sid], 0, 0)
            /\ UNCHANGED <<doc_vars, seq_vars, thr_vars>>

\* SessionManager.add_to_cart, with the item drawn from `items`
SessionAddToCartOf(items) ==
    \E sid \in SessionIds, item \in items :
        LET s1 == SM_add_to_cart(sessions, sid, item)
        IN  /\ sessions' = s1
            /\ lab_ret' = SessionRet("add_to_cart", sid, item.test_id,
                                     s1[sid], 0, 0)
            /\ UNCHANGED <<doc_vars, seq_vars, thr_vars>>

SessionAddToCart == SessionAddToCartOf(CartItemInputs)

\* SessionManager.remove_from_cart, with the test id drawn from `ids`
SessionRemoveFromCartOf(ids) ==
    \E sid \in SessionIds, test_id \in ids :
        LET s0 == SM_get_state(sessions, sid)
            s1 == SM_remove_from_cart(sessions, sid, test_id)
        IN  /\ sessions' = s1
            /\ lab_ret' = SessionRet("remove_from_cart", sid, test_id, s1[sid],
                              0, Len(s0[sid].cart) - Len(s1[sid].cart))
            /\ UNCHANGED <<doc_vars, seq_vars, thr_vars>>

SessionRemoveFromCart == SessionRemoveFromCartOf(TestIdInputs)

\* A third test of the catalogue with an offering, so that a cart can hold
\* three items: test_blood_002, 'Lipid Profile (Cholesterol)'.
LipidProfileItem ==
    [test_id |-> "test_blood_002", test_name |-> "Lipid Profile (Cholesterol)",
     lab_id |-> "lab_001", lab_name |-> "Ruby Hall Clinic", price |-> 800,
     home_collection_available |-> TRUE]

\* Adds and removes over three tests.
CartAdd == SessionAddToCartOf(CartItemInputs \cup {LipidProfileItem})
CartRemove == SessionRemoveFromCartOf(TestIdInputs \cup {"test_blood_002"})

\* SessionManager.get_cart_total
SessionGetCartTotal ==
    \E sid \in SessionIds :
        LET s1 == SM_get_state(sessions, sid)
        IN  /\ sessions' = s1
            /\ lab_ret' = SessionRet("get_cart_total", sid, None, s1[sid],
                                     SM_get_cart_total(sessions, sid), 0)
            /\ UNCHANGED <<doc_vars, seq_vars, thr_vars>>

\* SessionManager.clear_cart
SessionClearCart ==
    \E sid \in SessionIds :
        LET s0 == SM_get_state(sessions, sid)
            s1 == SM_clear_cart(sessions, sid)
        IN  /\ sessions' = s1
            /\ lab_ret' = SessionRet("clear_cart", sid, None, s1[sid], 0,
                                     Len(s0[sid].cart))
            /\ UNCHANGED <<doc_vars, seq_vars, thr_vars>>

-----------------------------------------------------------------------------
(* The executor of lab-test intents: main.handle_lab_test_query            *)

\* A key of the classifier's intent dict: absent, present with null, or
\* present with a value.
Absent == [kind |-> "absent"]
Null == [kind |-> "null"]
Val(v) == [kind |-> "val", v |-> v]

\* dict.get(key, default): the default for an absent key only.
DictGet(field, default) == IF field.kind = "absent" THEN Val(default) ELSE field

\* dict.get(key): None for an absent key.
DictGetNone(field) == IF field.kind = "absent" THEN Null ELSE field

\* A value as a Python argument: None for null.
Arg(field) == IF field.kind = "val" THEN field.v ELSE None

LabIntent(type, query, filters, test_id, lab_id, slot_id, collection_type) ==
    [type |-> type, query |-> query, filters |-> filters, test_id |-> test_id,
     lab_id |-> lab_id, slot_id |-> slot_id,
     collection_type |-> collection_type]

\* The intents parse_lab_test_intent may hand over: every intent type, its
\* optional fields absent, null or set.
LabIntentInputs ==
    {LabIntent(t, Absent, Absent, Absent, Absent, Absent, Absent) :
        t \in {"chat", "view_cart", "availability", "", "unknown"}}
    \cup {LabIntent("search", q, f, Absent, Absent, Absent, Absent) :
            q \in {Absent, Null, Val(Q_blood_count), Val(Q_zzz)},
            f \in {Absent, Null, Val([min_rating |-> 470]),
                   Val([max_price |-> 600])}}
    \cup {LabIntent("add_to_cart", Absent, Absent, t, l, Absent, Absent) :
            t \in {Absent, Null, Val("test_blood_001"), Val("test_blood_003"),
                   Val("test_unknown")},
            l \in {Absent, Null, Val("lab_001"), Val("lab_002")}}
    \cup {LabIntent("booking", Absent, Absent, Absent, Absent, sl, c) :
            sl \in {Absent, Null, Val("home_d0_06:00"), Val("slot_bogus")},
            c \in {Absent, Null, Val("home_collection"), Val("home")}}

\* "LB" + 8 random digits
LabBookingRefs == {"LB00000001", "LB00000002"}

\* The home collection fee of the executor's booking branch.
StandardHomeFee == 50

\* What is kept of a ChatResponse: its type, which message it carries, its
\* data; raised marks an exception that leaves the handler.
LabResponse(sid, intent, raised, type, kind, data) ==
    [op |-> "handle_lab_test_query", sid |-> sid, intent |-> intent,
     raised |-> raised, type |-> type, kind |-> kind, data |-> data]

NoData == << >>

\* The search branch.
LabSearchIntent(sid, intent, s0) ==
    LET query == DictGet(intent.query, << >>)
        filters == DictGet(intent.filters, NoFilters)
        \* `if filters:` in db.search_tests takes None as it takes {}
        found == SearchTable[Arg(query), IF filters.kind = "val"
                                         THEN filters.v ELSE NoFilters]
        shown == SubSeq(found.results, 1, Min(TopResults, Len(found.results)))
        ids == [i \in 1 .. Len(shown) |-> shown[i].id]
    IN  IF query.kind = "null"
        THEN \* query.lower() on None
             /\ sessions' = s0
             /\ lab_ret' = LabResponse(sid, intent, TRUE, "error", "AttributeError",
                                       NoData)
        ELSE IF found.raised
        THEN /\ sessions' = s0
             /\ lab_ret' = LabResponse(sid, intent, TRUE, "error", "AttributeError",
                                       NoData)
        ELSE /\ sessions' = SM_update_state(s0, sid, [journey_step |-> "discovery"])
             /\ lab_ret' =
                   IF Len(ids) = 0
                   THEN LabResponse(sid, intent, FALSE, "search", "no_tests_found",
                                    NoData)
                   ELSE LabResponse(sid, intent, FALSE, "search", "found",
                                    [tests |-> ids])

\* The add_to_cart branch.
LabAddToCartIntent(sid, intent, s0) ==
    LET test_id == Arg(DictGetNone(intent.test_id))
        lab_id == Arg(DictGetNone(intent.lab_id))
        test == get_test(test_id)
        selected_lab ==
            IF test = << >> THEN << >>
            ELSE FirstWhere(SelectSeq(test[1].labs_offering,
                                      LAMBDA lab : lab.lab_id = lab_id))
        ok == test # << >> /\ selected_lab # << >>
        s1 == IF ok
              THEN SM_add_to_cart(s0, sid, CartItem(test[1], selected_lab[1]))
              ELSE s0
        result ==
            [success |-> ok,
             message |-> IF test = << >> THEN "Test not found"
                         ELSE IF selected_lab = << >>
                         THEN "Lab does not offer this test" ELSE "Added",
             cart_count |-> Len(s1[sid].cart),
             cart_total |-> SM_get_cart_total(s1, sid)]
    IN  /\ sessions' = s1
        /\ lab_ret' = LabResponse(sid, intent, FALSE, "cart_updated",
                                  "cart_summary", result)

\* The view_cart branch.
LabViewCartIntent(sid, intent, s0) ==
    /\ sessions' = s0
    /\ lab_ret' =
          IF Len(s0[sid].cart) = 0
          THEN LabResponse(sid, intent, FALSE, "chat", "cart_empty", NoData)
          ELSE LabResponse(sid, intent, FALSE, "cart_view", "cart",
                           [cart |-> s0[sid].cart,
                            cart_total |-> SM_get_cart_total(s0, sid)])

\* The availability branch, for one outcome of the slot draws.
LabAvailabilityIntent(sid, intent, s0, sample) ==
    LET slots == db_get_available_slots(sample)
    IN  /\ sessions' = s0
        /\ lab_ret' =
              IF Len(s0[sid].cart) = 0
              THEN LabResponse(sid, intent, FALSE, "chat", "cart_empty", NoData)
              ELSE IF \E i \in 1 .. Len(slots) : "time" \notin DOMAIN slots[i]
              THEN \* agent.get_available_slots reads s.time
                   LabResponse(sid, intent, TRUE, "error", "AttributeError",
                               NoData)
              ELSE IF Len(slots) = 0
              THEN LabResponse(sid, intent, FALSE, "chat", "no_slots", NoData)
              ELSE LabResponse(sid, intent, FALSE, "lab_slots", "slots",
                       [slots |-> [i \in 1 .. Len(slots) |-> slots[i].slot_id]])

\* A mutant of LabBookingIntent: the booking is confirmed whatever the cart.
LabBookingIntentNoCartCheck(sid, intent, s0, booking_ref) ==
    /\ sessions' = SM_clear_cart(s0, sid)
    /\ lab_ret' = LabResponse(sid, intent, FALSE, "booking_confirmed",
                      "confirmed",
                      [booking_reference |-> booking_ref,
                       tests |-> s0[sid].cart,
                       total |-> SM_get_cart_total(s0, sid),
                       home_collection_fee |-> 0])

\* A mutant of LabBookingIntent: the fee is added for every collection type
\* the intent names other than lab_visit.
LabBookingIntentFeeForAny(sid, intent, s0, booking_ref) ==
    LET cart == s0[sid].cart
        collection_type == DictGet(intent.collection_type, "lab_visit")
        home == collection_type.kind = "val" /\ collection_type.v # "lab_visit"
        home_fee == IF home THEN StandardHomeFee ELSE 0
        total == SM_get_cart_total(s0, sid) + home_fee
    IN  IF Len(cart) = 0
        THEN /\ sessions' = s0
             /\ lab_ret' = LabResponse(sid, intent, FALSE, "chat", "cart_empty",
                                       NoData)
        ELSE /\ sessions' = SM_clear_cart(s0, sid)
             /\ lab_ret' = LabResponse(sid, intent, FALSE, "booking_confirmed",
                               "confirmed",
                               [booking_reference |-> booking_ref,
                                tests |-> cart, total |-> total,
                                home_collection_fee |-> home_fee])

\* The booking branch.
LabBookingIntent(sid, intent, s0, booking_ref) ==
    LET cart == s0[sid].cart
        collection_type == DictGet(intent.collection_type, "lab_visit")
        home == collection_type.kind = "val" /\ collection_type.v = "home_collection"
        home_fee == IF home THEN StandardHomeFee ELSE 0
        total == SM_get_cart_total(s0, sid) + home_fee
    IN  IF Len(cart) = 0
        THEN /\ sessions' = s0
             /\ lab_ret' = LabResponse(sid, intent, FALSE, "chat", "cart_empty",
                                       NoData)
        ELSE /\ sessions' = SM_clear_cart(s0, sid)
             /\ lab_ret' = LabResponse(sid, intent, FALSE, "booking_confirmed",
                               "confirmed",
                               [booking_reference |-> booking_ref,
                                tests |-> cart, total |-> total,
                                home_collection_fee |-> home_fee])

\* main.handle_lab_test_query: the session is looked up (and created) first,
\* then the branch of the intent type runs.
handle_lab_test_query(sid, intent, sample, booking_ref) ==
    LET s0 == SM_get_state(sessions, sid)
    IN  /\ CASE intent.type = "chat" ->
                   /\ sessions' = s0
                   /\ lab_ret' = LabResponse(sid, intent, FALSE, "chat",
                                             "response", NoData)
             [] intent.type = "search" -> LabSearchIntent(sid, intent, s0)
             [] intent.type = "add_to_cart" -> LabAddToCartIntent(sid, intent, s0)
             [] intent.type = "view_cart" -> LabViewCartIntent(sid, intent, s0)
             [] intent.type = "availability" ->
                   LabAvailabilityIntent(sid, intent, s0, sample)
             [] intent.type = "booking" ->
                   LabBookingIntent(sid, intent, s0, booking_ref)
             [] OTHER ->
                   /\ sessions' = s0
                   /\ lab_ret' = LabResponse(sid, intent, FALSE, "chat",
                                             "fallback", NoData)
        /\ UNCHANGED <<doc_vars, seq_vars, thr_vars>>

\* The slot draws matter to the availability branch only, the reference to
\* the booking branch only.
HandleLabTestQuery ==
    \E sid \in SessionIds, intent \in LabIntentInputs :
        \E sample \in (IF intent.type = "availability" THEN Samples ELSE {{}}),
           booking_ref \in (IF intent.type = "booking"
                            THEN LabBookingRefs ELSE {None}) :
            handle_lab_test_query(sid, intent, sample, booking_ref)

-----------------------------------------------------------------------------
(* Doctor search and the executor of doctor intents: main.handle_doctor_query *)

Txt_DrSharma1 ==
    << "D", "r", ".", " ", "S", "h", "a", "r", "m", "a", " ", "(", "1", ")" >>

Txt_DrPatel2 ==
    << "D", "r", ".", " ", "P", "a", "t", "e", "l", " ", "(", "2", ")" >>

Txt_Dermatologist ==
    << "D", "e", "r", "m", "a", "t", "o", "l", "o", "g", "i", "s", "t" >>

Txt_Cardiologist ==
    << "C", "a", "r", "d", "i", "o", "l", "o", "g", "i", "s", "t" >>

DQ_Dr == << "D", "r" >>

DQ_patel == << "p", "a", "t", "e", "l" >>

\* The fields of Doctor the search reads; rating is in tenths of a star,
\* distance_km the haversine distance from the user in hundredths of a km.
DoctorRow(id, name_text, specialty_text, in_clinic, rating, distance_km) ==
    [id |-> id, name_text |-> name_text, specialty_text |-> specialty_text,
     in_clinic |-> in_clinic, rating |-> rating, distance_km |-> distance_km]

\* self.doctors.values(), in insertion order.
Doctors ==
    << DoctorRow("doc_001", Txt_DrSharma1, Txt_Dermatologist, 800, 45, 250),
       DoctorRow("doc_002", Txt_DrPatel2, Txt_Cardiologist, 1000, 40, 175) >>

\* round(x, 2) of x = n / 10000, in hundredths (ties to the even neighbour).
RoundHundredths(n) ==
    LET q == n \div 100
        rem == n % 100
    IN  IF rem > 50 \/ (rem = 50 /\ q % 2 = 1) THEN q + 1 ELSE q

\* A mutant of calculate_relevance_score: the distance term is not clamped
\* at zero.
calculate_relevance_scoreNoClamp(distance, rating, is_available_today) ==
    RoundHundredths(
        4 * (1000 - distance)
            + 60 * rating
            + (IF is_available_today THEN 3000 ELSE 0))

\* utils.calculate_relevance_score, in hundredths:
\* 0.4 * max(0, 10 - distance) / 10 + 0.3 * rating / 5 + 0.3 * available
calculate_relevance_score(distance, rating, is_available_today) ==
    RoundHundredths(
        4 * (IF 1000 - distance > 0 THEN 1000 - distance ELSE 0)
            + 60 * rating
            + (IF is_available_today THEN 3000 ELSE 0))

\* A dict key that is present and truthy.
Truthy(d, key) == key \in DOMAIN d /\ d[key] # 0

\* A mutant of db_search_doctors: the query is matched against the
\* specialty only.
db_search_doctorsSpecialtyOnly(query, filters, booked) ==
    LET passes(doc) ==
            /\ (query # None /\ query # << >>) =>
                  IsSubstr(Lower(query), Lower(doc.specialty_text))
            /\ ~(Truthy(filters, "max_fees") /\ doc.in_clinic > filters.max_fees)
            /\ ~(Truthy(filters, "min_rating") /\ doc.rating < filters.min_rating)
        kept == SelectSeq(Doctors, passes)
        rows == [i \in 1 .. Len(kept) |->
                    [doctor |-> kept[i].id,
                     available_today |-> has_slots_today(kept[i].id, booked),
                     sort_key |->
                         calculate_relevance_score(kept[i].distance_km,
                             kept[i].rating,
                             has_slots_today(kept[i].id, booked))]]
    IN  SortDesc(rows)

\* MockDatabase.search_doctors: the results in rank order.  query is None
\* or a string; filters is a dict.
db_search_doctors(query, filters, booked) ==
    LET passes(doc) ==
            /\ (query # None /\ query # << >>) =>
                  \/ IsSubstr(Lower(query), Lower(doc.specialty_text))
                  \/ IsSubstr(Lower(query), Lower(doc.name_text))
            /\ ~(Truthy(filters, "max_fees") /\ doc.in_clinic > filters.max_fees)
            /\ ~(Truthy(filters, "min_rating") /\ doc.rating < filters.min_rating)
        kept == SelectSeq(Doctors, passes)
        rows == [i \in 1 .. Len(kept) |->
                    [doctor |-> kept[i].id,
                     available_today |-> has_slots_today(kept[i].id, booked),
                     sort_key |->
                         calculate_relevance_score(kept[i].distance_km,
                             kept[i].rating,
                             has_slots_today(kept[i].id, booked))]]
    IN  SortDesc(rows)

DQ_DERMA == << "D", "E", "R", "M", "A" >>

\* The query and filters arguments search_doctors is called with.
DoctorQueryInputs == {None, << >>, DQ_Dr, DQ_DERMA, DQ_patel, Q_zzz}

DoctorFilterInputs ==
    {NoFilters, [max_fees |-> 900], [max_fees |-> 0], [min_rating |-> 42],
     [min_rating |-> 0], [max_fees |-> 900, min_rating |-> 42]}

\* MockDatabase.search_doctors called with a query and filters: the catalogue
\* is read, nothing is written.
SearchDoctorsCall ==
    \E query \in DoctorQueryInputs, filters \in DoctorFilterInputs :
        /\ prev' = Summary(last)
        /\ last' = [op |-> "db_search_doctors", query |-> query,
                    filters |-> filters,
                    results |-> db_search_doctors(query, filters, is_booked)]
        /\ UNCHANGED <<doc_vars, thr_vars, lab_vars>>

\* Distances from 0 to 12 km (in hundredths of a km), the 10 km saturation
\* point among them, and ratings from 0 to 5 stars in steps of 0.1 (in
\* tenths).
DistanceInputs == {70 * k : k \in 0 .. 17} \cup {1000, 1200}
RatingInputs == 0 .. 50

\* utils.calculate_relevance_score called on its own.
RelevanceScore ==
    \E distance \in DistanceInputs, rating \in RatingInputs,
       is_available_today \in BOOLEAN :
        /\ prev' = Summary(last)
        /\ last' = [op |-> "calculate_relevance_score",
                    distance |-> distance, rating |-> rating,
                    is_available_today |-> is_available_today,
                    score |-> calculate_relevance_score(distance, rating,
                                                        is_available_today)]
        /\ UNCHANGED <<doc_vars, thr_vars, lab_vars>>

\* raw_results[:5]
TopDoctors == 5

\* DoctorBookingAgent.find_doctors (no llm_service is passed by the
\* executor): the ids of the formatted results.
find_doctors(intent, filters, booked) ==
    LET raw == db_search_doctors(intent, filters, booked)
        top == SubSeq(raw, 1, Min(TopDoctors, Len(raw)))
    IN  [i \in 1 .. Len(top) |-> top[i].doctor]

\* DoctorBookingAgent.find_doctors called on its own: the catalogue is read,
\* nothing is written.
FindDoctors ==
    \E intent \in {DQ_Dr, DQ_patel} :
        /\ prev' = Summary(last)
        /\ last' = CallRecord("find_doctors", None, None, None, None,
                     [status |-> "ok", message |-> "",
                      doctors |-> find_doctors(intent, NoFilters, is_booked)])
        /\ UNCHANGED <<doc_vars, thr_vars, lab_vars>>

\* MockDatabase.get_doctor called on its own.
GetDoctor ==
    \E doctor_id \in DoctorInputs :
        /\ prev' = Summary(last)
        /\ last' = CallRecord("get_doctor", doctor_id, None, None, None,
                     [status |-> "ok", message |-> "",
                      doctor |-> get_doctor(doctor_id)])
        /\ UNCHANGED <<doc_vars, thr_vars, lab_vars>>

\* day.date.isoformat(), in the date strings of the model
IsoFormat(day) ==
    CASE day = 0 -> "today"
      [] day = 1 -> "today+1"
      [] day = 2 -> "today+2"
      [] OTHER -> "today+3"

DoctorIntent(type, query, filters, slot_id) ==
    [type |-> type, query |-> query, filters |-> filters, slot_id |-> slot_id]

\* The intents parse_doctor_search_intent may hand over.
DoctorIntentInputs ==
    {DoctorIntent(t, Absent, Absent, Absent) : t \in {"chat", "", "unknown"}}
    \cup {DoctorIntent(t, q, f, Absent) :
            t \in {"search", "filter"},
            q \in {Absent, Null, Val(DQ_Dr), Val(Q_zzz)},
            f \in {Absent, Null, Val([max_fees |-> 900])}}
    \cup {DoctorIntent("slots", q, Absent, Absent) :
            q \in {Absent, Null, Val(DQ_Dr), Val(Q_zzz)}}
    \cup {DoctorIntent("booking", q, Absent, sl) :
            q \in {Absent, Null, Val(DQ_Dr), Val(DQ_patel), Val(Q_zzz)},
            sl \in {Absent, Null, Val(SlotId(0, 1)), Val(SlotId(0, NumSlots))}}

\* request.message
MessageInputs == {DQ_patel}

\* What is kept of the handler's answer: the response type and message, the
\* doctor resolved, the slot handed to book_appointment, the result data;
\* raised marks the HTTPException(500) of the except clause.
DoctorResponse(intent, raised, type, kind, doctor_id, slot_id, data) ==
    [op |-> "handle_doctor_query", intent |-> intent, raised |-> raised,
     type |-> type, kind |-> kind, doctor_id |-> doctor_id,
     slot_id |-> slot_id, data |-> data]

\* filters_obj -> filters (main.py, search and filter branches)
CopyFilters(filters_obj) ==
    IF Truthy(filters_obj, "max_fees") /\ Truthy(filters_obj, "min_rating")
    THEN [max_fees |-> filters_obj.max_fees,
          min_rating |-> filters_obj.min_rating]
    ELSE IF Truthy(filters_obj, "max_fees")
    THEN [max_fees |-> filters_obj.max_fees]
    ELSE IF Truthy(filters_obj, "min_rating")
    THEN [min_rating |-> filters_obj.min_rating]
    ELSE NoFilters

\* The search and filter branches: they read the catalogue only.
DoctorSearchIntent(intent, message) ==
    LET query == IF intent.type = "search"
                 THEN DictGet(intent.query, message)
                 ELSE DictGetNone(intent.query)
        filters_obj == DictGet(intent.filters, NoFilters)
        results == find_doctors(Arg(query), CopyFilters(filters_obj.v),
                                is_booked)
    IN  /\ last' =
              IF filters_obj.kind = "null"
              THEN \* filters_obj.get on None
                   DoctorResponse(intent, TRUE, "error", "AttributeError",
                                  None, None, NoData)
              ELSE IF intent.type = "filter"
                      /\ (query.kind = "null" \/ query.v = << >>)
              THEN DoctorResponse(intent, FALSE, "chat", "which_specialty",
                                  None, None, NoData)
              ELSE IF Len(results) = 0
              THEN DoctorResponse(intent, FALSE, "search", "none_found",
                                  None, None, NoData)
              ELSE DoctorResponse(intent, FALSE, "search", "found",
                                  results[1], None, [doctors |-> results])
        /\ UNCHANGED doc_vars

\* The slots branch.
DoctorSlotsIntent(intent) ==
    LET doctor_name == DictGetNone(intent.query)
        candidates == find_doctors(Arg(doctor_name), NoFilters, is_booked)
        schedule == ScheduleOf(candidates[1], is_booked)
    IN  /\ last' =
              IF doctor_name.kind = "null" \/ doctor_name.v = << >>
              THEN DoctorResponse(intent, FALSE, "chat", "which_doctor",
                                  None, None, NoData)
              ELSE IF Len(candidates) = 0
              THEN DoctorResponse(intent, FALSE, "chat", "doctor_not_found",
                                  None, None, NoData)
              ELSE IF Len(schedule) = 0
              THEN DoctorResponse(intent, FALSE, "chat", "no_slots",
                                  candidates[1], None, NoData)
              ELSE DoctorResponse(intent, FALSE, "slots", "schedule",
                                  candidates[1], None, [schedule |-> schedule])
        /\ UNCHANGED doc_vars

\* The booking branch: the first free slot of the first listed day of the
\* top candidate is handed to book_appointment.
DoctorBookingIntent(intent) ==
    LET doctor_name == DictGetNone(intent.query)
        candidates == find_doctors(Arg(doctor_name), NoFilters, is_booked)
        doc_id == candidates[1]
        schedule == ScheduleOf(doc_id, is_booked)
        first_slot == schedule[1].slots[1]
        date_str == IsoFormat(schedule[1].date)
        out == BookCheck(doc_id, date_str, first_slot, is_booked)
        key == KeyOf(doc_id, date_str, first_slot)
        appt_id == NextApptId(appointments)
    IN  IF doctor_name.kind = "null" \/ doctor_name.v = << >>
        THEN /\ last' = DoctorResponse(intent, FALSE, "chat", "which_doctor",
                                       None, None, NoData)
             /\ UNCHANGED doc_vars
        ELSE IF Len(candidates) = 0
        THEN /\ last' = DoctorResponse(intent, FALSE, "chat",
                                       "doctor_not_found", None, None, NoData)
             /\ UNCHANGED doc_vars
        ELSE IF Len(schedule) = 0
        THEN /\ last' = DoctorResponse(intent, FALSE, "chat", "no_slots",
                                       doc_id, None, NoData)
             /\ UNCHANGED doc_vars
        ELSE IF out # "ok"
        THEN /\ last' = DoctorResponse(intent, FALSE, "booking", "failed",
                                       doc_id, first_slot, ErrorResult(out))
             /\ UNCHANGED doc_vars
        ELSE /\ is_booked' = MarkBooked(is_booked, key)
             /\ appointments' =
                    StoreAppt(appointments, appt_id,
                              Appointment(appt_id, doc_id, "web_user",
                                          first_slot, key[2]))
             /\ last' = DoctorResponse(intent, FALSE, "booking", "success",
                            doc_id, first_slot,
                            BookResult("success", "Booked", appt_id))
             /\ UNCHANGED seed_booked

\* main.handle_doctor_query
handle_doctor_query(intent, message) ==
    /\ prev' = Summary(last)
    /\ CASE intent.type = "chat" ->
               /\ last' = DoctorResponse(intent, FALSE, "chat", "response",
                                         None, None, NoData)
               /\ UNCHANGED doc_vars
         [] intent.type \in {"search", "filter"} ->
               DoctorSearchIntent(intent, message)
         [] intent.type = "slots" -> DoctorSlotsIntent(intent)
         [] intent.type = "booking" -> DoctorBookingIntent(intent)
         [] OTHER ->
               /\ last' = DoctorResponse(intent, FALSE, "chat", "fallback",
                                         None, None, NoData)
               /\ UNCHANGED doc_vars
    /\ UNCHANGED <<thr_vars, lab_vars>>

HandleDoctorQuery ==
    \E intent \in DoctorIntentInputs, message \in MessageInputs :
        handle_doctor_query(intent, message)

-----------------------------------------------------------------------------
(* Package recommendation                                                  *)

\* LabPackage, as _create_packages fills it: package_price is
\* int(original * factor), savings the difference.
LabPackage(id, tests_included, original, percent) ==
    [id |-> id, tests_included |-> tests_included, original_price |-> original,
     package_price |-> (original * percent) \div 100,
     savings |-> original - (original * percent) \div 100]

\* self.packages, in creation order.  find_test("ECG") matches no test name
\* ("Electrocardiogram"), so the third package is never appended.  The
\* original prices are sums of randomly seeded offering prices.
Packages ==
    << LabPackage("pkg_001",
           << "test_blood_001", "test_blood_002", "test_blood_003",
              "test_blood_004", "test_blood_005" >>, 2500, 65),
       LabPackage("pkg_002",
           << "test_blood_012", "test_blood_009", "test_blood_005" >>,
           4000, 70) >>

\* Longest list of selected test ids the model passes.
MaxSelected == 3

SelectableTestIds ==
    {"test_blood_001", "test_blood_005", "test_blood_009", "test_blood_012",
     "test_radio_006"}

SelectedInputs ==
    UNION {[1 .. n -> SelectableTestIds] : n \in 0 .. MaxSelected}

\* set(selected_tests) & set(pkg.tests_included)
Overlap(selected_tests, pkg) ==
    {selected_tests[i] : i \in 1 .. Len(selected_tests)}
        \cap {pkg.tests_included[j] : j \in 1 .. Len(pkg.tests_included)}

\* A mutant of db_recommend_package: of the packages that qualify, the one
\* with the largest saving.
db_recommend_packageBestSaving(selected_tests) ==
    LET hits == SelectSeq(Packages,
                    LAMBDA pkg : Cardinality(Overlap(selected_tests, pkg)) >= 2)
        best == SelectSeq(hits,
                    LAMBDA pkg : \A i \in 1 .. Len(hits) :
                                    hits[i].savings <= pkg.savings)
    IN  FirstWhere(best)

\* LabTestDatabase.recommend_package
db_recommend_package(selected_tests) ==
    FirstWhere(SelectSeq(Packages,
        LAMBDA pkg : Cardinality(Overlap(selected_tests, pkg)) >= 2))

\* LabTestAgent.recommend_packages: its own loop over self.db.packages; the
\* dict returned, or None.
agent_recommend_packages(test_ids) ==
    LET hits == SelectSeq(Packages,
                    LAMBDA package : Cardinality(Overlap(test_ids, package)) >= 2)
    IN  IF Len(hits) = 0 THEN << >>
        ELSE << [id |-> hits[1].id,
                 tests_included |-> hits[1].tests_included,
                 original_price |-> hits[1].original_price,
                 package_price |-> hits[1].package_price,
                 savings |-> hits[1].savings] >>

\* The id of an optional package, None for none.
PackageId(opt) == IF opt = << >> THEN None ELSE opt[1].id

RecommendPackage ==
    \E selected_tests \in SelectedInputs :
        /\ lab_ret' = [op |-> "recommend_package", sid |-> None,
                       selected |-> selected_tests,
                       package |-> PackageId(db_recommend_package(selected_tests))]
        /\ UNCHANGED <<doc_vars, seq_vars, thr_vars, sessions>>

RecommendPackages ==
    \E test_ids \in SelectedInputs :
        /\ lab_ret' = [op |-> "recommend_packages", sid |-> None,
                       selected |-> test_ids,
                       package |-> PackageId(agent_recommend_packages(test_ids))]
        /\ UNCHANGED <<doc_vars, seq_vars, thr_vars, sessions>>

-----------------------------------------------------------------------------
(* Specifications                                                          *)

\* _generate_availability: every slot is seeded booked or free at random.
InitDoctors ==
    /\ is_booked \in [SlotKeys -> BOOLEAN]
    /\ seed_booked = is_booked
    /\ appointments = <<>>
    /\ last = NoCall
    /\ prev = Summary(NoCall)
    /\ pc = [t \in Threads |-> "idle"]
    /\ targ = [t \in Threads |-> NoArgs]
    /\ tappt = [t \in Threads |-> 0]
    /\ tres = [t \in Threads |-> BookResult("none", "", 0)]

InitLabIdle ==
    /\ sessions = <<>>
    /\ lab_ret = [op |-> "none", sid |-> None]

Init == InitDoctors /\ InitLabIdle

Next ==
    \/ BookSlot
    \/ GetDoctorSchedule
    \/ SearchDoctors

Spec == Init /\ [][Next]_vars

NextThreads == \E t \in Threads : T_Check(t) \/ T_Mark(t) \/ T_Alloc(t) \/ T_Store(t)

SpecThreads == Init /\ [][NextThreads]_vars

\* The lab agent runs against its own stores; the doctor catalogue is idle.
InitLab ==
    /\ is_booked = [k \in SlotKeys |-> FALSE]
    /\ seed_booked = is_booked
    /\ appointments = <<>>
    /\ last = NoCall
    /\ prev = Summary(NoCall)
    /\ pc = [t \in Threads |-> "idle"]
    /\ targ = [t \in Threads |-> NoArgs]
    /\ tappt = [t \in Threads |-> 0]
    /\ tres = [t \in Threads |-> BookResult("none", "", 0)]
    /\ sessions = <<>>
    /\ lab_ret = [op |-> "none", sid |-> None]

NextLab ==
    \/ SearchTests
    \/ AddToCart
    \/ RemoveFromCart
    \/ ViewCart
    \/ ClearCart
    \/ GetAvailableSlots
    \/ BookTests

SpecLab == InitLab /\ [][NextLab]_vars

\* A SessionManager on its own: SessionManager.__init__, then any sequence
\* of calls of its methods.
NextSession ==
    \/ SessionGetState
    \/ SessionUpdateState
    \/ SessionResetState
    \/ SessionAddToCart
    \/ SessionRemoveFromCart
    \/ SessionGetCartTotal
    \/ SessionClearCart

SpecSession == InitLab /\ [][NextSession]_vars

\* The lab-test API: the executor of classified intents, and the two agent
\* methods about slots called directly.
NextLabApi ==
    \/ HandleLabTestQuery
    \/ GetAvailableSlots
    \/ BookTests

SpecLabApi == InitLab /\ [][NextLabApi]_vars

\* The doctor API: the executor of classified intents over a seeded
\* catalogue.
NextDoctorApi == HandleDoctorQuery

SpecDoctorApi == Init /\ [][NextDoctorApi]_vars

\* Package recommendation over lists of selected test ids.
NextPackages ==
    \/ RecommendPackage
    \/ RecommendPackages

SpecPackages == InitLab /\ [][NextPackages]_vars

\* Doctor search over a seeded catalogue.
NextSearch == SearchDoctorsCall

SpecSearch == Init /\ [][NextSearch]_vars

\* Every operation of the doctor catalogue and its agent, one call at a
\* time, from a catalogue seeded with every slot free.
NextCatalogue ==
    \/ BookSlot
    \/ GetDoctorSchedule
    \/ SearchDoctors
    \/ FindDoctors
    \/ GetDoctor

SpecCatalogue == InitLab /\ [][NextCatalogue]_vars

\* A SessionManager whose carts are filled and emptied item by item.
\* A catalogue whose doctors have one day more than a schedule shows.
WeekDays == 0 .. ScheduleDays
WeekKeys == DoctorIds \X WeekDays \X SlotIdx

\* Outcomes of the random.choice([True, False, False]) draws of
\* _generate_availability the week starts from: nothing booked; or doc_001
\* with the first slot of day 1, all of day 2 and the last slot of day 3 booked.
WeekSeeds ==
    { {},
      {k \in WeekKeys :
          /\ k[1] = "doc_001"
          /\ \/ k[2] = 1 /\ k[3] = 0
             \/ k[2] = 2
             \/ k[2] = 3 /\ k[3] = NumSlots - 1} }

InitWeek ==
    /\ is_booked \in {[k \in WeekKeys |-> k \in seed] : seed \in WeekSeeds}
    /\ seed_booked = is_booked
    /\ appointments = <<>>
    /\ last = NoCall
    /\ prev = Summary(NoCall)
    /\ pc = [t \in Threads |-> "idle"]
    /\ targ = [t \in Threads |-> NoArgs]
    /\ tappt = [t \in Threads |-> 0]
    /\ tres = [t \in Threads |-> BookResult("none", "", 0)]
    /\ InitLabIdle

\* Bookings a run of the week makes at most: enough to fill a day.
MaxWeekBookings == NumSlots

\* book_slot called with the date and id of a slot of the week.
BookSlotWeek ==
    \E day \in WeekDays, idx \in SlotIdx :
        /\ Cardinality(DOMAIN appointments) < MaxWeekBookings
        /\ book_slot("doc_001", IsoFormat(day), SlotId(day, idx), "web_user")

NextWeek ==
    \/ BookSlotWeek
    \/ GetDoctorSchedule

SpecWeek == InitWeek /\ [][NextWeek]_vars

NextCart ==
    \/ CartAdd
    \/ CartRemove

SpecCart == InitLab /\ [][NextCart]_vars

\* The relevance score on its own.
NextScore == RelevanceScore

SpecScore == InitLab /\ [][NextScore]_vars

-----------------------------------------------------------------------------
(* Claims about the doctor catalogue                                       *)

\* The arguments name a slot that exists in the grid.
ExistingSlot(a) ==
    /\ a.doctor_id \in DoctorIds
    /\ FromIsoFormat(a.date_str) \in Days
    /\ \E idx \in SlotIdx : SlotId(FromIsoFormat(a.date_str), idx) = a.slot_id

\* The grid cell the arguments name (for arguments that satisfy ExistingSlot).
CellOf(a) ==
    <<a.doctor_id, FromIsoFormat(a.date_str),
      CHOOSE idx \in SlotIdx : SlotId(FromIsoFormat(a.date_str), idx) = a.slot_id>>

SameSlot(a, b) ==
    /\ a.doctor_id = b.doctor_id
    /\ a.date_str = b.date_str
    /\ a.slot_id = b.slot_id

\* C1: when two callers run book_slot concurrently for the same (doctor,
\* date, slot_id) on a slot that is not yet booked, then under every
\* interleaving exactly one call returns status success and the other
\* returns the 'Slot already booked' error.
C1_ExactlyOneWins ==
    \A t1, t2 \in Threads :
        ( /\ t1 # t2
          /\ pc[t1] = "done" /\ pc[t2] = "done"
          /\ SameSlot(targ[t1], targ[t2])
          /\ ExistingSlot(targ[t1])
          /\ ~seed_booked[CellOf(targ[t1])] )
        => \/ /\ tres[t1].status = "success"
              /\ tres[t2].status = "error"
              /\ tres[t2].message = "Slot already booked"
           \/ /\ tres[t2].status = "success"
              /\ tres[t1].status = "error"
              /\ tres[t1].message = "Slot already booked"

\* C2: for a slot that exists and is unconsumed, the first of two sequential
\* book_slot calls with the same (doctor, date, slot_id) returns success with
\* an appointment id, the second returns 'Slot already booked', and the
\* slot's is_booked flag is true after each of the two calls.
C2_BookStep ==
    LET a == last' IN
    (a.op = "book_slot" /\ ExistingSlot(a)) =>
        /\ ~is_booked[CellOf(a)] =>
              /\ a.result.status = "success"
              /\ a.result.appointment_id \in DOMAIN appointments'
              /\ a.result.appointment_id \notin DOMAIN appointments
              /\ is_booked'[CellOf(a)]
        /\ (prev'.status = "success" /\ SameSlot(prev', a)) =>
              /\ a.result.status = "error"
              /\ a.result.message = "Slot already booked"
              /\ is_booked'[CellOf(a)]

C2_TwiceSequential == [][C2_BookStep]_vars

C2_Witness ==
    /\ last.op = "book_slot"
    /\ prev.status = "success"
    /\ SameSlot(prev, last)
    /\ ~seed_booked[CellOf(last)]
    /\ last.result.message = "Slot already booked"

\* The (doctor_id, date, slot_id) an appointment references.
ApptSlot(appt) == <<appt.doctor_id, appt.date, appt.slot_id>>

\* C3: in every reachable state no two stored appointments reference the
\* same (doctor_id, date, slot_id), and every stored appointment references
\* a slot whose is_booked flag is true, for any sequence and interleaving of
\* book_slot calls.
C3_NoDoubleBooking ==
    /\ \A i, j \in DOMAIN appointments :
          i # j => ApptSlot(appointments[i]) # ApptSlot(appointments[j])
    /\ \A i \in DOMAIN appointments :
          \E k \in SlotKeys :
              /\ k[1] = appointments[i].doctor_id
              /\ k[2] = appointments[i].date
              /\ SlotId(k[2], k[3]) = appointments[i].slot_id
              /\ is_booked[k]

\* C4: a slot's is_booked flag is monotone: once true it is true in every
\* later state, whatever operation follows; nothing sets it back to false.
C4_FlagStep == \A k \in SlotKeys : is_booked[k] => is_booked'[k]

C4_BookedIsMonotone == [][C4_FlagStep]_vars

C4_Witness ==
    /\ \E k \in SlotKeys : ~seed_booked[k] /\ is_booked[k]
    /\ \E k \in SlotKeys : seed_booked[k]
    /\ Cardinality(DOMAIN appointments) >= 2
    /\ last.op \in {"get_doctor_schedule", "search_doctors"}

\* C5: every successful book_slot returns a new sequential appointment id
\* that differs from the id of every other successful call, and the number
\* of stored appointments equals the number of successful bookings.
C5_UniqueApptIds ==
    /\ \A t1, t2 \in Threads :
          ( /\ t1 # t2
            /\ tres[t1].status = "success"
            /\ tres[t2].status = "success" )
          => tres[t1].appointment_id # tres[t2].appointment_id
    /\ (\A t \in Threads : pc[t] = "done") =>
          Cardinality(DOMAIN appointments) =
              Cardinality({t \in Threads : tres[t].status = "success"})

\* C6: book_slot tests its failure conditions in the order unknown doctor,
\* date absent from the availability, slot id absent in that day, slot
\* already consumed; a call that returns one of these errors changes no slot
\* flag and adds no appointment.
C6_BookStep ==
    LET a == last'
        r == a.result
        docOK == a.doctor_id \in DoctorIds
        parsed == a.date_str \in {"today", "today+1"}
        dateOK == parsed /\ a.date_str = "today"
    IN  a.op = "book_slot" =>
        /\ r.message = "Doctor not found" <=> ~docOK
        /\ r.message = "Date not available" <=> (docOK /\ parsed /\ ~dateOK)
        /\ r.message = "Slot not found" <=>
               (docOK /\ dateOK /\ ~ExistingSlot(a))
        /\ r.message = "Slot already booked" <=>
               (docOK /\ dateOK /\ ExistingSlot(a) /\ is_booked[CellOf(a)])
        /\ r.status = "error" =>
               (is_booked' = is_booked /\ appointments' = appointments)
        /\ r.status = "error" <=>
               r.message \in {"Doctor not found", "Date not available",
                              "Slot not found", "Slot already booked"}

C6_ErrorOrder == [][C6_BookStep]_vars

C6_Witness ==
    /\ last.op = "book_slot"
    /\ last.doctor_id \notin DoctorIds
    /\ last.date_str = "not-a-date"
    /\ last.result.status = "error"
    /\ last.result.message = "Doctor not found"
    /\ appointments # <<>>

-----------------------------------------------------------------------------
(* Claims about the lab-test session and cart                              *)

\* The sum of the prices of a cart, item by item from the head.
RECURSIVE PriceSum(_)
PriceSum(cart) ==
    IF cart = << >> THEN 0 ELSE Head(cart).price + PriceSum(Tail(cart))

\* C7: in every reachable session state, after any sequence of add_to_cart,
\* remove_from_cart, clear_cart, search and booking operations, the cart
\* holds at most one entry per test id.
C7_CartUnique ==
    \A sid \in DOMAIN sessions :
        \A i, j \in 1 .. Len(sessions[sid].cart) :
            i # j => sessions[sid].cart[i].test_id # sessions[sid].cart[j].test_id

C7_Witness ==
    /\ lab_ret.op = "add_to_cart"
    /\ lab_ret.success
    /\ Len(sessions[lab_ret.sid].cart) = 2
    /\ \E i \in 1 .. 2 :
          /\ sessions[lab_ret.sid].cart[i].test_id = lab_ret.test_id
          /\ sessions[lab_ret.sid].cart[i].lab_id # lab_ret.lab_id

\* C8: adding a test id that is already in the session's cart, with the same
\* or a different lab id, is a no-op: the cart (its length, its order, the
\* lab and price of the existing entry) and the journey stage are unchanged.
C8_AddStep ==
    LET r == lab_ret' IN
    ( /\ r.op = "add_to_cart"
      /\ r.sid \in DOMAIN sessions
      /\ InCart(sessions[r.sid].cart, r.test_id) )
    => /\ sessions'[r.sid].cart = sessions[r.sid].cart
       /\ sessions'[r.sid].journey_step = sessions[r.sid].journey_step

C8_DuplicateAddIsNoOp == [][C8_AddStep]_vars

C8_Witness ==
    /\ lab_ret.op = "add_to_cart"
    /\ lab_ret.success
    /\ sessions[lab_ret.sid].journey_step = "discovery"
    /\ Len(sessions[lab_ret.sid].cart) = 1
    /\ sessions[lab_ret.sid].cart[1].test_id = lab_ret.test_id
    /\ sessions[lab_ret.sid].cart[1].lab_id # lab_ret.lab_id

\* C9: after any sequence of add_to_cart and remove_from_cart operations,
\* including removals of ids not in the cart, the cart total returned is
\* exactly the sum of the prices of the items now in that session's cart
\* (0 for an empty cart), never a stale value.
C9_TotalIsSum ==
    ( \/ lab_ret.op \in {"remove_from_cart", "view_cart"}
      \/ (lab_ret.op = "add_to_cart" /\ lab_ret.success) )
    => /\ lab_ret.cart = sessions[lab_ret.sid].cart
       /\ lab_ret.cart_total = PriceSum(sessions[lab_ret.sid].cart)
       /\ (sessions[lab_ret.sid].cart = << >> => lab_ret.cart_total = 0)

C9_Witness ==
    /\ lab_ret.op = "remove_from_cart"
    /\ lab_ret.test_id = "test_unknown"
    /\ Len(sessions[lab_ret.sid].cart) = 2
    /\ lab_ret.cart_total = 1200

\* C10: after a lab booking through book_tests that passes its two checks
\* (the cart is not empty, the slot is offered), the session has the booking
\* reference recorded, the selected slot recorded, an empty cart, and
\* journey stage post_booking.
C10_BookingRecorded ==
    ( /\ lab_ret.op = "book_tests"
      /\ lab_ret.outcome \notin {"Cart is empty", "Invalid slot"} )
    => /\ sessions[lab_ret.sid].booking_reference # None
       /\ sessions[lab_ret.sid].booking_reference = lab_ret.booking_reference
       /\ sessions[lab_ret.sid].selected_slot.slot_id = lab_ret.slot_id
       /\ sessions[lab_ret.sid].cart = << >>
       /\ sessions[lab_ret.sid].journey_step = "post_booking"

-----------------------------------------------------------------------------
(* Claims about the SessionManager methods                                 *)

\* The state a caller finds for a session: the stored one, or the empty
\* state a first access creates.
StateOf(ss, sid) == IF sid \in DOMAIN ss THEN ss[sid] ELSE EmptyState

\* A cart without the entries of one test id, in the same order.
RECURSIVE Without(_, _)
Without(cart, test_id) ==
    IF cart = << >> THEN << >>
    ELSE IF Head(cart).test_id = test_id THEN Without(Tail(cart), test_id)
    ELSE <<Head(cart)>> \o Without(Tail(cart), test_id)

\* C11: remove_from_cart removes the entry with the given test id; if the
\* cart is empty afterwards the journey stage becomes discovery (not
\* search), and if the cart is still non-empty the stage is left as it was.
C11_RemoveStep ==
    LET r == lab_ret'
        before == StateOf(sessions, r.sid)
        after == sessions'[r.sid]
    IN  r.op = "remove_from_cart" =>
        /\ ~InCart(after.cart, r.test_id)
        /\ after.cart = Without(before.cart, r.test_id)
        /\ after.cart = << >> => after.journey_step = "discovery"
        /\ after.cart # << >> => after.journey_step = before.journey_step

C11_RemoveFromCart == [][C11_RemoveStep]_vars

C11_Witness ==
    /\ lab_ret.op = "remove_from_cart"
    /\ lab_ret.removed = 1
    /\ Len(sessions[lab_ret.sid].cart) = 1
    /\ sessions[lab_ret.sid].journey_step = "cart"

\* C12: removing a test id that is not in the session's cart is a no-op:
\* from every session state, a fresh session in stage search and a session
\* in stage post_booking with an empty cart included, the cart and the
\* journey stage are the same after the call as before it.
C12_RemoveStep ==
    LET r == lab_ret'
        before == StateOf(sessions, r.sid)
        after == sessions'[r.sid]
    IN  (r.op = "remove_from_cart" /\ ~InCart(before.cart, r.test_id)) =>
        /\ after.cart = before.cart
        /\ after.journey_step = before.journey_step

C12_RemoveAbsentIsNoOp == [][C12_RemoveStep]_vars

\* C13: clear_cart leaves the session with an empty cart and journey stage
\* discovery from every prior state, and leaves the session's booking
\* reference and selected slot unchanged.
C13_ClearStep ==
    LET r == lab_ret'
        before == StateOf(sessions, r.sid)
        after == sessions'[r.sid]
    IN  r.op = "clear_cart" =>
        /\ after.cart = << >>
        /\ after.journey_step = "discovery"
        /\ after.booking_reference = before.booking_reference
        /\ after.selected_slot = before.selected_slot

C13_ClearCart == [][C13_ClearStep]_vars

C13_Witness ==
    /\ lab_ret.op = "clear_cart"
    /\ lab_ret.removed = 2
    /\ sessions[lab_ret.sid].booking_reference # None
    /\ sessions[lab_ret.sid].selected_slot # NoSlot

\* C14: get_state on a session id never seen before creates a state with
\* stage search, empty cart, unset collection method, null selected slot and
\* null booking reference; get_state on an existing session returns that
\* session's state and changes nothing of it, so any number of calls in a
\* row yield the same state.
C14_GetStateStep ==
    LET r == lab_ret' IN
    r.op = "get_state" =>
        /\ r.sid \notin DOMAIN sessions =>
              sessions'[r.sid] =
                  [journey_step |-> "search", cart |-> << >>,
                   collection_method |-> None, selected_slot |-> NoSlot,
                   booking_reference |-> None]
        /\ r.sid \in DOMAIN sessions => sessions'[r.sid] = sessions[r.sid]
        /\ r.state = sessions'[r.sid]
        /\ \A other \in DOMAIN sessions : sessions'[other] = sessions[other]

C14_GetState == [][C14_GetStateStep]_vars

C14_Witness ==
    /\ lab_ret.op = "get_state"
    /\ Len(lab_ret.state.cart) = 2
    /\ lab_ret.state.journey_step = "cart"
    /\ lab_ret.state.booking_reference # None

-----------------------------------------------------------------------------
(* Claims about the lab-test executor                                      *)

\* The four fields of a session a failed operation must leave alone.
SameSession(a, b) ==
    /\ a.cart = b.cart
    /\ a.journey_step = b.journey_step
    /\ a.selected_slot = b.selected_slot
    /\ a.booking_reference = b.booking_reference

\* C15: an availability intent on a session whose cart is empty is rejected
\* with a cart-empty response and no slot list (get_available_slots returns
\* an empty list without generating slots), and the session's cart and
\* stage are unchanged.
C15_AvailabilityStep ==
    LET r == lab_ret'
        before == StateOf(sessions, r.sid)
        after == sessions'[r.sid]
    IN  /\ ( /\ r.op = "handle_lab_test_query"
             /\ r.intent.type = "availability"
             /\ before.cart = << >> )
           => /\ ~r.raised
              /\ r.type = "chat"
              /\ r.kind = "cart_empty"
              /\ after.cart = before.cart
              /\ after.journey_step = before.journey_step
        /\ (r.op = "get_available_slots" /\ before.cart = << >>)
           => /\ ~r.raised
              /\ r.slots = << >>
              /\ after.cart = before.cart
              /\ after.journey_step = before.journey_step

C15_EmptyCartAvailability == [][C15_AvailabilityStep]_vars

C15_Witness ==
    /\ lab_ret.op = "handle_lab_test_query"
    /\ lab_ret.intent.type = "availability"
    /\ lab_ret.kind = "cart_empty"
    /\ sessions[lab_ret.sid].journey_step = "discovery"
    /\ \E other \in DOMAIN sessions : sessions[other].cart # << >>

\* The slot ids get_available_slots can offer at all.
OfferedSlotIds == {SlotUniverse[i].slot_id : i \in 1 .. Len(SlotUniverse)}

\* C16: a lab booking attempted on a session with an empty cart, or (in
\* book_tests) with a slot id that is not an available slot, is rejected
\* with a failure result, and the session's cart, journey stage, selected
\* slot and booking reference are exactly as they were.
C16_BookingStep ==
    LET r == lab_ret'
        before == StateOf(sessions, r.sid)
        after == sessions'[r.sid]
    IN  /\ ( /\ r.op = "handle_lab_test_query"
             /\ r.intent.type = "booking"
             /\ before.cart = << >> )
           => /\ ~r.raised
              /\ r.type = "chat"
              /\ r.kind = "cart_empty"
              /\ SameSession(after, before)
        /\ r.op = "book_tests" =>
              /\ before.cart = << >> => r.outcome = "Cart is empty"
              /\ (before.cart # << >> /\ r.slot_id \notin OfferedSlotIds)
                     => r.outcome = "Invalid slot"
              /\ r.outcome \in {"Cart is empty", "Invalid slot"} =>
                     (~r.success /\ SameSession(after, before))

C16_RejectedBooking == [][C16_BookingStep]_vars

C16_Witness ==
    /\ lab_ret.op = "book_tests"
    /\ lab_ret.outcome = "Invalid slot"
    /\ lab_ret.slot_id \in OfferedSlotIds
    /\ Len(sessions[lab_ret.sid].cart) = 2
    /\ sessions[lab_ret.sid].journey_step = "cart"

\* The test id names a test of the catalogue and the lab id one of the labs
\* offering it.
Resolves(test_id, lab_id) ==
    \E i \in 1 .. Len(Tests) :
        /\ Tests[i].id = test_id
        /\ \E j \in 1 .. Len(Tests[i].labs_offering) :
              Tests[i].labs_offering[j].lab_id = lab_id

\* C17: an add_to_cart intent whose test id does not resolve in the
\* catalogue, or whose lab id is not one of that test's offerings (absent
\* and null ids included), produces a user-facing error result rather than
\* a cart_updated success or an exception, and leaves the session's cart
\* and journey stage unchanged.
C17_AddStep ==
    LET r == lab_ret'
        before == StateOf(sessions, r.sid)
        after == sessions'[r.sid]
    IN  ( /\ r.op = "handle_lab_test_query"
          /\ r.intent.type = "add_to_cart"
          /\ ~Resolves(Arg(r.intent.test_id), Arg(r.intent.lab_id)) )
        => /\ ~r.raised
           /\ r.type # "cart_updated"
           /\ after.cart = before.cart
           /\ after.journey_step = before.journey_step

C17_UnresolvedAdd == [][C17_AddStep]_vars

-----------------------------------------------------------------------------
(* Claims about the executor of doctor intents                             *)

\* The slots a step consumes.
Consumed == {k \in SlotKeys : ~is_booked[k] /\ is_booked'[k]}

\* The intent names a slot that is a free slot of the given doctor.
NamesFreeSlot(intent, doctor_id) ==
    /\ intent.slot_id.kind = "val"
    /\ \E k \in SlotKeys :
          /\ k[1] = doctor_id
          /\ SlotId(k[2], k[3]) = intent.slot_id.v
          /\ ~is_booked[k]

\* C18: a doctor booking intent handled by the executor only ever consumes
\* the slot identified by the intent (its slot_id, for the resolved doctor);
\* when the intent carries no slot, or a slot that does not match a free slot
\* of that doctor, the executor answers with a clarification and consumes no
\* slot rather than choosing one on its own.
C18_BookingStep ==
    LET r == last' IN
    (r.op = "handle_doctor_query" /\ r.intent.type = "booking") =>
        /\ \A k \in Consumed :
              /\ k[1] = r.doctor_id
              /\ r.intent.slot_id.kind = "val"
              /\ SlotId(k[2], k[3]) = r.intent.slot_id.v
        /\ ~NamesFreeSlot(r.intent, r.doctor_id) =>
              /\ Consumed = {}
              /\ appointments' = appointments
              /\ r.type = "chat"

C18_OnlyTheNamedSlot == [][C18_BookingStep]_vars

\* C19: for every intent type and every combination of absent or null
\* optional fields in the classifier output, the executor returns a
\* response (a result or a clarification) and never faults; a search or
\* filter intent whose query or filters field is present but null does not
\* raise.
C19_NeverFaults ==
    /\ last.op = "handle_doctor_query" => ~last.raised
    /\ lab_ret.op = "handle_lab_test_query" => ~lab_ret.raised

-----------------------------------------------------------------------------
(* Claims about package recommendation                                     *)

\* The packages, by position, that share at least 2 test ids with the
\* selection.
Qualifying(selected) ==
    {i \in 1 .. Len(Packages) : Cardinality(Overlap(selected, Packages[i])) >= 2}

\* The earliest created of them, None when there is none.
FirstQualifying(selected) ==
    IF Qualifying(selected) = {} THEN None
    ELSE Packages[CHOOSE i \in Qualifying(selected) :
                      \A j \in Qualifying(selected) : i <= j].id

\* C20: recommend_package returns the first package in creation order whose
\* tests_included shares at least 2 test ids with the selected test ids,
\* even when a later package also qualifies or saves more, and none when no
\* package shares at least 2; the agent's recommend_packages selects the
\* same package as the database's recommend_package for the same input.
C20_FirstQualifyingPackage ==
    /\ lab_ret.op \in {"recommend_package", "recommend_packages"} =>
          lab_ret.package = FirstQualifying(lab_ret.selected)
    /\ lab_ret.op = "recommend_packages" =>
          lab_ret.package = PackageId(db_recommend_package(lab_ret.selected))

C20_Witness ==
    /\ lab_ret.op = "recommend_package"
    /\ Qualifying(lab_ret.selected) = {1, 2}
    /\ Packages[2].savings > Packages[1].savings
    /\ lab_ret.package = "pkg_001"

-----------------------------------------------------------------------------
(* Claims about doctor search                                              *)

\* The catalogue row of a doctor id, and its position in insertion order.
DoctorOf(id) == Doctors[CHOOSE i \in 1 .. Len(Doctors) : Doctors[i].id = id]
InsertionIndex(id) == CHOOSE i \in 1 .. Len(Doctors) : Doctors[i].id = id

\* The ids a search returned.
Returned(results) == {results[i].doctor : i \in 1 .. Len(results)}

\* The query is a case-insensitive substring of the specialty or the name.
TextMatch(query, doc) ==
    \/ IsSubstr(Lower(query), Lower(doc.specialty_text))
    \/ IsSubstr(Lower(query), Lower(doc.name_text))

\* The doctor violates a filter that was supplied.
ViolatesFilter(filters, doc) ==
    \/ ("max_fees" \in DOMAIN filters /\ doc.in_clinic > filters.max_fees)
    \/ ("min_rating" \in DOMAIN filters /\ doc.rating < filters.min_rating)

\* C21: search_doctors returns its results ordered by relevance score
\* descending, and two results with equal score appear in the order in which
\* their doctors were inserted into the catalogue (stable, no secondary key).
C21_RankOrder ==
    last.op = "db_search_doctors" =>
        \A i, j \in 1 .. Len(last.results) :
            i < j =>
                /\ last.results[i].sort_key >= last.results[j].sort_key
                /\ last.results[i].sort_key = last.results[j].sort_key =>
                       InsertionIndex(last.results[i].doctor)
                           < InsertionIndex(last.results[j].doctor)

C21_Witness ==
    /\ last.op = "db_search_doctors"
    /\ Len(last.results) = 2
    /\ last.results[1].sort_key = last.results[2].sort_key
    /\ last.results[1].doctor = "doc_001"

\* C22: whenever a max-fee filter is supplied (any value, 0 included) every
\* returned doctor has in-clinic fee <= it, whenever a min-rating filter is
\* supplied every returned doctor has rating >= it, and a doctor is excluded
\* only by a supplied filter it violates or by the text query.
C22_FiltersExclude ==
    last.op = "db_search_doctors" =>
        /\ \A id \in Returned(last.results) :
              ~ViolatesFilter(last.filters, DoctorOf(id))
        /\ \A i \in 1 .. Len(Doctors) :
              Doctors[i].id \notin Returned(last.results) =>
                  \/ ViolatesFilter(last.filters, Doctors[i])
                  \/ ( /\ last.query # None
                       /\ last.query # << >>
                       /\ ~TextMatch(last.query, Doctors[i]) )

\* C23: for every non-empty text query search_doctors returns only doctors
\* whose specialty or name contains the query as a case-insensitive
\* substring, and omits no doctor that matches the query and passes the
\* filters; with an empty query every doctor passes the text step.
C23_TextQuery ==
    last.op = "db_search_doctors" =>
        LET nonEmpty == last.query # None /\ last.query # << >> IN
        /\ nonEmpty =>
              \A id \in Returned(last.results) : TextMatch(last.query, DoctorOf(id))
        /\ \A i \in 1 .. Len(Doctors) :
              ( /\ nonEmpty => TextMatch(last.query, Doctors[i])
                /\ ~ViolatesFilter(last.filters, Doctors[i]) )
              => Doctors[i].id \in Returned(last.results)

C23_Witness ==
    /\ last.op = "db_search_doctors"
    /\ last.query # None
    /\ last.query = DQ_DERMA
    /\ last.filters = NoFilters
    /\ Returned(last.results) = {"doc_001"}

\* The weighted sum 0.4*max(0,10-distance)/10 + 0.3*rating/5 + 0.3*available,
\* in ten-thousandths.
WeightedSum(distance, rating, is_available_today) ==
    4 * (IF distance < 1000 THEN 1000 - distance ELSE 0)
        + 60 * rating
        + (IF is_available_today THEN 3000 ELSE 0)

\* C26: for every distance >= 0, rating in [0,5] and availability flag,
\* calculate_relevance_score is the weighted sum rounded to 2 decimals (a
\* nearest hundredth), lies in [0,1], is non-increasing in distance and
\* non-decreasing in rating with the other inputs fixed, and is constant in
\* distance beyond 10 km.
C26_RelevanceScore ==
    last.op = "calculate_relevance_score" =>
        LET d == last.distance
            r == last.rating
            a == last.is_available_today
            w == WeightedSum(d, r, a)
            diff == 100 * last.score - w
        IN  /\ 2 * diff <= 100 /\ 2 * diff >= -100
            /\ last.score >= 0 /\ last.score <= 100
            /\ \A d2 \in DistanceInputs :
                  d2 >= d => calculate_relevance_score(d2, r, a) <= last.score
            /\ \A r2 \in RatingInputs :
                  r2 >= r => calculate_relevance_score(d, r2, a) >= last.score
            /\ d >= 1000 =>
                  \A d2 \in DistanceInputs :
                      d2 >= 1000 => calculate_relevance_score(d2, r, a) = last.score

C26_Witness ==
    /\ last.op = "calculate_relevance_score"
    /\ last.distance = 1200
    /\ last.rating = 50
    /\ last.is_available_today
    /\ last.score = 60

-----------------------------------------------------------------------------
(* Claims about lab test search                                            *)

\* The catalogue row of a test id.
TestOf(id) == Tests[CHOOSE i \in 1 .. Len(Tests) : Tests[i].id = id]

\* The abbreviation written in parentheses in a test's name, lower-cased;
\* the empty sequence stands for none.
AbbrevOf(test) ==
    LET n == Lower(test.name_text)
    IN  IF IndexOf(n, "(") # 0 /\ IndexOf(n, ")") # 0
        THEN << Strip(SplitFirst(SplitSecond(n, "("), ")")) >>
        ELSE << >>

\* The query is a case-insensitive substring of the name or the category, or
\* equals the abbreviation.
NamedBy(query, test) ==
    \/ IsSubstr(Lower(query), Lower(test.name_text))
    \/ IsSubstr(Lower(query), Lower(test.category))
    \/ AbbrevOf(test) = << Lower(query) >>

\* The ids of the tests a query names, in any order.
NamedIds(query) ==
    {Tests[i].id : i \in {j \in 1 .. Len(Tests) : NamedBy(query, Tests[j])}}

ResultIds(results) == {results[i] : i \in 1 .. Len(results)}

\* C24: search_tests returns a test exactly when the query, compared
\* case-insensitively, is a substring of the test's name or of its category,
\* or equals the abbreviation in parentheses in the test's name; a query
\* containing parentheses does not cause other tests to be returned.
C24_SearchByText ==
    (lab_ret.op = "search_tests" /\ lab_ret.filters = NoFilters) =>
        /\ ~lab_ret.raised
        /\ ResultIds(lab_ret.results) = NamedIds(lab_ret.query)

\* The lowest price among a test's offerings; the empty sequence when no lab
\* offers it.
MinOfferingPrice(test) ==
    IF test.labs_offering = << >> THEN << >>
    ELSE << CHOOSE p \in {test.labs_offering[i].price :
                             i \in 1 .. Len(test.labs_offering)} :
               \A i \in 1 .. Len(test.labs_offering) :
                   p <= test.labs_offering[i].price >>

\* The test satisfies every filter present.
SatisfiesFilters(filters, test) ==
    /\ "max_price" \in DOMAIN filters =>
          /\ MinOfferingPrice(test) # << >>
          /\ MinOfferingPrice(test)[1] <= filters.max_price
    /\ ("home_collection" \in DOMAIN filters /\ filters.home_collection) =>
          \E i \in 1 .. Len(test.labs_offering) :
              test.labs_offering[i].home_collection_available
    /\ "min_rating" \in DOMAIN filters => test.rating >= filters.min_rating

\* C25: given a max-price, home-collection or min-rating filter and at least
\* one test matching the query, search_tests completes without error and
\* returns exactly the matching tests that satisfy the filter, the maximum
\* price being compared with the test's lowest offering price.
C25_SearchWithFilters ==
    ( /\ lab_ret.op = "search_tests"
      /\ lab_ret.filters # NoFilters
      /\ \E i \in 1 .. Len(Tests) : QueryMatches(lab_ret.query, Tests[i]) ) =>
        /\ ~lab_ret.raised
        /\ ResultIds(lab_ret.results) =
              {Tests[i].id : i \in {j \in 1 .. Len(Tests) :
                  /\ QueryMatches(lab_ret.query, Tests[j])
                  /\ SatisfiesFilters(lab_ret.filters, Tests[j])}}

\* C29: after a test search that returns at least one result the session's
\* stage is discovery and its cart, selected slot and booking reference are
\* unchanged; a search that finds nothing does not change the stage.
C29_SearchStep ==
    LET r == lab_ret'
        before == StateOf(sessions, r.sid)
        after == sessions'[r.sid]
    IN  (r.op = "search_tests" /\ ~r.raised) =>
        /\ r.results # << >> =>
              /\ after.journey_step = "discovery"
              /\ after.cart = before.cart
              /\ after.selected_slot = before.selected_slot
              /\ after.booking_reference = before.booking_reference
        /\ r.results = << >> => after.journey_step = before.journey_step

C29_SearchStage == [][C29_SearchStep]_vars

-----------------------------------------------------------------------------
(* Claims about sessions                                                   *)

\* C27: after the executor confirms a lab booking (response type
\* booking_confirmed) the session's booking reference is non-null and is the
\* reference returned to the user.
C27_ReferenceRecorded ==
    ( /\ lab_ret.op = "handle_lab_test_query"
      /\ lab_ret.type = "booking_confirmed" ) =>
        /\ sessions[lab_ret.sid].booking_reference # None
        /\ sessions[lab_ret.sid].booking_reference
               = lab_ret.data.booking_reference

\* C28: sessions are isolated: an operation performed with one session id,
\* the lazy creation of that session included, neither creates nor changes
\* any other session: the other's cart, stage, selected slot and booking
\* reference are as before (so two fresh sessions do not share a cart).
C28_IsolationStep ==
    \A b \in SessionIds \ {lab_ret'.sid} :
        /\ b \in DOMAIN sessions' <=> b \in DOMAIN sessions
        /\ b \in DOMAIN sessions => SameSession(sessions'[b], sessions[b])

C28_Isolation == [][C28_IsolationStep]_vars

C28_Witness ==
    /\ lab_ret.op = "add_to_cart"
    /\ lab_ret.sid = "s1"
    /\ DOMAIN sessions = SessionIds
    /\ Len(sessions["s1"].cart) = 1
    /\ sessions["s2"] = EmptyState

\* The journey stages a session may be in.
Stages ==
    {"search", "discovery", "cart", "availability", "booking", "post_booking"}

\* The stage of an existing session differs after the step.
StageChanged(sid) ==
    /\ sid \in DOMAIN sessions
    /\ sessions'[sid].journey_step # sessions[sid].journey_step

\* The SessionManager calls behind search and booking (update_state),
\* add_to_cart, remove_from_cart and clear_cart.
StageOps == {"update_state", "add_to_cart", "remove_from_cart", "clear_cart"}

\* C30, as stated: every session's stage is one of the six stages, a session
\* is created in stage search or in the stage its creating operation sets,
\* and the stage of an existing session changes only through search,
\* add_to_cart, remove_from_cart, clear_cart and booking.
C30_StatedStep ==
    /\ \A sid \in DOMAIN sessions' : sessions'[sid].journey_step \in Stages
    /\ \A sid \in SessionIds : StageChanged(sid) => lab_ret'.op \in StageOps

C30_AmendedStep ==
    /\ \A sid \in DOMAIN sessions' : sessions'[sid].journey_step \in Stages
    /\ \A sid \in SessionIds :
          StageChanged(sid) =>
              /\ lab_ret'.sid = sid
              /\ lab_ret'.op \in StageOps \cup {"reset_state"}
              /\ lab_ret'.op = "reset_state" =>
                     sessions'[sid].journey_step = "search"
    /\ \A sid \in DOMAIN sessions' \ DOMAIN sessions :
          /\ lab_ret'.sid = sid
          /\ lab_ret'.op \in {"get_state", "get_cart_total", "reset_state"}
                 => sessions'[sid].journey_step = "search"

-----------------------------------------------------------------------------
(* Claims about the cart, lab bookings and the doctor catalogue's frame    *)

\* C31: in every state reached through the agent's operations, a session
\* whose journey stage is cart has a non-empty cart.
C31_CartStageHasItems ==
    \A sid \in DOMAIN sessions :
        sessions[sid].journey_step = "cart" => sessions[sid].cart # << >>

C31_Witness ==
    /\ lab_ret.op = "remove_from_cart"
    /\ lab_ret.sid = "s1"
    /\ sessions["s1"].journey_step = "cart"
    /\ Len(sessions["s1"].cart) = 1
    /\ "s2" \in DOMAIN sessions
    /\ sessions["s2"].journey_step = "discovery"
    /\ sessions["s2"].cart = << >>

\* C32: a lab booking consumes no shared slot resource: it changes no other
\* session and no slot flag or appointment, and a booking of a session with a
\* non-empty cart succeeds whatever was booked before it, by any session and
\* for any slot id (in book_tests: for any slot id offered at the call).
C32_BookingStep ==
    LET r == lab_ret'
        before == StateOf(sessions, r.sid)
        byExecutor == r.op = "handle_lab_test_query" /\ r.intent.type = "booking"
        byAgent == r.op = "book_tests"
    IN  /\ (byExecutor \/ byAgent) =>
              /\ UNCHANGED doc_vars
              /\ \A b \in SessionIds \ {r.sid} :
                    /\ b \in DOMAIN sessions' <=> b \in DOMAIN sessions
                    /\ b \in DOMAIN sessions => sessions'[b] = sessions[b]
        /\ (byExecutor /\ before.cart # << >>) => r.type = "booking_confirmed"
        /\ ( /\ byAgent
             /\ before.cart # << >>
             /\ r.outcome # "Invalid slot" ) => r.success

C32_NoSharedSlot == [][C32_BookingStep]_vars

\* C33: every doctor-catalogue operation other than book_slot
\* (search_doctors, find_doctors, get_doctor, get_doctor_schedule) and every
\* book_slot that does not succeed leaves all is_booked flags and the stored
\* appointments unchanged.
C33_ReadOnlyStep ==
    (last'.op # "book_slot" \/ last'.result.status # "success") =>
        UNCHANGED <<is_booked, appointments>>

C33_ReadOnly == [][C33_ReadOnlyStep]_vars

C33_Witness ==
    /\ last.op = "book_slot"
    /\ last.result.message = "Slot already booked"
    /\ prev.status = "success"
    /\ prev.doctor_id = last.doctor_id
    /\ prev.slot_id = last.slot_id
    /\ Cardinality(DOMAIN appointments) = 1

\* C34: book_slot called for an existing doctor with a malformed date string
\* returns an error result as a value rather than raising, and leaves all
\* slot flags and appointments unchanged.
C34_MalformedDateStep ==
    ( /\ last'.op = "book_slot"
      /\ get_doctor(last'.doctor_id) # None
      /\ FromIsoFormat(last'.date_str) = -1 ) =>
        /\ last'.result.status = "error"
        /\ UNCHANGED <<is_booked, appointments>>

C34_MalformedDate == [][C34_MalformedDateStep]_vars

\* The position of the item with the given test id in a cart, 0 when the
\* cart has none.
PosIn(cart, test_id) ==
    IF InCart(cart, test_id)
    THEN CHOOSE i \in 1 .. Len(cart) : cart[i].test_id = test_id
    ELSE 0

\* C35: the cart is an ordered list in insertion order: a successful
\* add_to_cart appends the new item after all existing items, and
\* remove_from_cart keeps the remaining items in their relative order.
C35_OrderStep ==
    LET r == lab_ret'
        before == StateOf(sessions, r.sid).cart
        after == sessions'[r.sid].cart
    IN  /\ (r.op = "add_to_cart" /\ ~InCart(before, r.test_id)) =>
              /\ Len(after) = Len(before) + 1
              /\ SubSeq(after, 1, Len(before)) = before
              /\ after[Len(after)].test_id = r.test_id
        /\ r.op = "remove_from_cart" =>
              /\ \A i \in 1 .. Len(after) :
                    /\ PosIn(before, after[i].test_id) # 0
                    /\ before[PosIn(before, after[i].test_id)] = after[i]
              /\ \A i, j \in 1 .. Len(after) :
                    i < j => PosIn(before, after[i].test_id)
                                 < PosIn(before, after[j].test_id)
              /\ \A i \in 1 .. Len(before) :
                    before[i].test_id # r.test_id
                        => InCart(after, before[i].test_id)

C35_InsertionOrder == [][C35_OrderStep]_vars

C35_Witness ==
    /\ lab_ret.op = "remove_from_cart"
    /\ lab_ret.test_id = "test_blood_001"
    /\ lab_ret.removed = 1
    /\ Len(sessions[lab_ret.sid].cart) = 2
    /\ sessions[lab_ret.sid].cart[1].test_id = "test_blood_003"
    /\ sessions[lab_ret.sid].cart[2].test_id = "test_blood_002"

\* The test names of a cart, in cart order.
TestNames(cart) == [i \in 1 .. Len(cart) |-> cart[i].test_name]

\* C36: a book_tests call that passes its two checks (the cart is not empty,
\* the slot is offered) succeeds, and its result lists the names of all tests
\* that were in the cart at the moment of booking, a non-empty list, although
\* the cart is cleared as part of the booking.
C36_BookingStep ==
    LET r == lab_ret'
        before == StateOf(sessions, r.sid)
    IN  ( /\ r.op = "book_tests"
          /\ r.outcome \notin {"Cart is empty", "Invalid slot"} ) =>
            /\ r.success
            /\ r.tests # << >>
            /\ r.tests = TestNames(before.cart)

C36_ResultListsCart == [][C36_BookingStep]_vars

\* C37: for a session with a non-empty cart, every slot id get_available_slots
\* obtained is accepted by the book_tests call that immediately follows with
\* that slot id: the booking is not rejected as 'Invalid slot', whatever the
\* per-slot availability draws of the two calls are.
C37_OfferedStep ==
    ( /\ lab_ret.op = "get_available_slots"
      /\ Len(StateOf(sessions, lab_ret.sid).cart) > 0
      /\ lab_ret'.op = "book_tests"
      /\ lab_ret'.sid = lab_ret.sid
      /\ \E i \in 1 .. Len(lab_ret.generated) :
            lab_ret.generated[i] = lab_ret'.slot_id ) =>
        lab_ret'.outcome # "Invalid slot"

C37_OfferedSlotAccepted == [][C37_OfferedStep]_vars

\* The slots a schedule shows for a day, as a set (empty when the day is not
\* listed).
ShownSlots(schedule, day) ==
    {schedule[i].slots[j] :
        <<i, j>> \in {p \in (1 .. Len(schedule)) \X (1 .. NumSlots) :
                         /\ schedule[p[1]].date = day
                         /\ p[2] <= Len(schedule[p[1]].slots)}}

\* C38: get_doctor_schedule lists only slots whose is_booked flag is false,
\* only from the doctor's first 3 days, and no day without a free slot; a
\* slot booked through book_slot appears in no later schedule; an unknown
\* doctor id yields the error value 'Doctor not found'.
C38_ScheduleStep ==
    LET r == last'
        sched == r.result.schedule
    IN  r.op = "get_doctor_schedule" =>
          IF r.doctor_id \notin DoctorIds
          THEN /\ r.result.status = "error"
               /\ r.result.message = "Doctor not found"
          ELSE /\ r.result.status = "ok"
               /\ \A i \in 1 .. Len(sched) :
                    /\ sched[i].date \in {0, 1, 2}
                    /\ Len(sched[i].slots) > 0
                    /\ \A j \in 1 .. Len(sched[i].slots) :
                         \E idx \in SlotIdx :
                            /\ sched[i].slots[j] = SlotId(sched[i].date, idx)
                            /\ ~is_booked[<<r.doctor_id, sched[i].date, idx>>]
               /\ \A a \in DOMAIN appointments :
                    appointments[a].doctor_id = r.doctor_id =>
                        appointments[a].slot_id
                            \notin ShownSlots(sched, appointments[a].date)

C38_ScheduleShowsFree == [][C38_ScheduleStep]_vars

\* A schedule of doc_001 that leaves out a fully booked day, a booked slot of
\* a listed day and a free slot of the fourth day.
C38_Witness ==
    /\ last.op = "get_doctor_schedule"
    /\ last.doctor_id = "doc_001"
    /\ Len(last.result.schedule) = 2
    /\ \E a \in DOMAIN appointments :
          /\ appointments[a].doctor_id = "doc_001"
          /\ appointments[a].date = 0
    /\ \E idx \in SlotIdx : is_booked[<<"doc_001", 0, idx>>]
    /\ \E idx \in SlotIdx : ~is_booked[<<"doc_001", 0, idx>>]
    /\ \A idx \in SlotIdx : is_booked[<<"doc_001", 2, idx>>]
    /\ \E idx \in SlotIdx : ~is_booked[<<"doc_001", 3, idx>>]

\* C39: the total a confirmed lab booking of the executor reports is the sum
\* of the prices of the items in the cart just before the booking, plus the
\* home-collection fee of 50 exactly when the collection type is
\* home_collection; the tests it reports are the cart before it was cleared.
C39_TotalStep ==
    LET r == lab_ret'
        before == StateOf(sessions, r.sid).cart
    IN  ( /\ r.op = "handle_lab_test_query"
          /\ r.type = "booking_confirmed" ) =>
            /\ r.data.tests = before
            /\ r.data.total =
                  PriceSum(before)
                    + (IF r.intent.collection_type = Val("home_collection")
                       THEN 50 ELSE 0)

C39_BookingTotal == [][C39_TotalStep]_vars

\* A confirmed home_collection booking of a two-item cart, now cleared.
C39_Witness ==
    /\ lab_ret.op = "handle_lab_test_query"
    /\ lab_ret.type = "booking_confirmed"
    /\ lab_ret.intent.collection_type = Val("home_collection")
    /\ Len(lab_ret.data.tests) = 2
    /\ lab_ret.data.total = PriceSum(lab_ret.data.tests) + 50
    /\ StateOf(sessions, lab_ret.sid).cart = << >>

====
